---- MODULE Spec2Model ----
(***************************************************************************)
(* Verification model of the krypt signal pipeline:                        *)
(*   - SignalEngine (src/src/engine.rs), Scorer (src/src/scoring.rs),      *)
(*     Detector (src/src/detection.rs)                                     *)
(*   - TelegramDispatcher (src/src/telegram.rs)                            *)
(*   - TradeStreamSubscriptionManager (src/src/streams.rs)                 *)
(*                                                                         *)
(* Numbers are integers.  f64 prices are integer price units, scores are   *)
(* per-mille (1000 = 1.0), quote volumes are in units of 100,000 quote     *)
(* currency (10 = 1e6), percentages are whole percents.  Every float       *)
(* comparison of the source is modelled by the equivalent cross-multiplied *)
(* integer comparison.  Time is in seconds, as Timestamp (u64 seconds).    *)
(***************************************************************************)
EXTENDS Integers, Sequences, FiniteSets, TLC

VARIABLES
    now,            \* current_timestamp(), seconds
    feed,           \* what the ticker feed carries in this run (fixed by Init)
    symbols,        \* SignalEngine.symbols : HashMap<String, SymbolData>
    alerts,         \* Vec<Alert> returned by the last process_trade
    tier1_list,     \* Vec<String> returned by the last rescore_symbols
    alert_rx,           \* the alerts channel, engine -> dispatcher
    emitted,            \* number of alerts sent into alert_rx so far
    last_alert_times,   \* TelegramDispatcher.last_alert_times
    alerts_this_minute, \* TelegramDispatcher.alerts_this_minute
    handled,            \* the alert send_alert handled last, and how it ended
    delivered,          \* log of the messages Telegram accepted, with the time of delivery
    active_streams,     \* TradeStreamSubscriptionManager.active_streams: symbol -> JoinHandle
    tasks,              \* the spawned trade-ingestion tasks that are still running
    next_handle,        \* number of tasks spawned so far
    upd,                \* the update_subscriptions call in progress, if any
    last_call,          \* the subscribe/unsubscribe call made last
    engine_pc,          \* where signal_engine_task stands in its loop
    task_batch,         \* the tickers process_ticker has still to go through
    task_begin,         \* the message being processed and the table it found
    tier1_rx,           \* the Tier 1 updates channel, engine -> subscription manager
    pq,                 \* AlertPriorityQueue.queue
    popped,             \* what the last AlertPriorityQueue.pop returned
    score_in,           \* the snapshot handed to the Scorer
    score_out,          \* what calculate_score returned for score_in
    tier_out,           \* what assign_tier returned for score_out
    score_prev,         \* the score and tier of the snapshot scored before
    score_pc,           \* which Scorer call comes next
    tracker,            \* the SymbolTracker handed to PumpDetector.analyze
    candidate,          \* what the last PumpDetector.analyze returned
    stream_kind,        \* which stream the connection loop serves: ticker or trade
    stream_pc,          \* where connect_*_stream stands in its loop
    reconnect_delay,    \* the local reconnect_delay of connect_*_stream, seconds
    sleep_secs,         \* the duration of the sleep made last, seconds
    last_frame,         \* what the last connect or read.next() gave
    stream_tx,          \* the messages forwarded into the stream channel, not yet received
    rx_closed,          \* the receiver of the stream channel was dropped
    pings,              \* the keepalive ping tasks that are still running
    next_conn,          \* number of trade-stream connections made so far
    last_trade,         \* the trade handed to process_trade last
    pump_clock,         \* the wall-clock fields of the tracker: last_alert_time, detected_at
    pairs,              \* scanner_api AppState.pairs: pair -> PairSnapshot
    storage,            \* the state file at AppState.storage_path
    requests            \* the scanner_api operations in progress, one per client

engine_vars == <<feed, symbols, alerts, tier1_list>>
dispatch_vars == <<alert_rx, emitted, last_alert_times, alerts_this_minute, handled, delivered>>
sub_vars == <<active_streams, tasks, next_handle, upd, last_call>>
task_vars == <<engine_pc, task_batch, task_begin, tier1_rx>>
queue_vars == <<pq, popped>>
score_vars == <<score_in, score_out, tier_out, score_prev, score_pc>>
pump_vars == <<tracker, candidate>>
stream_vars == <<stream_kind, stream_pc, reconnect_delay, sleep_secs, last_frame, stream_tx, rx_closed>>
conn_vars == <<pings, next_conn>>
trade_vars == <<last_trade>>
scan_vars == <<pump_clock>>
api_vars == <<pairs, storage, requests>>
aux_vars == <<queue_vars, score_vars, pump_vars, stream_vars, conn_vars, trade_vars, scan_vars, api_vars>>

vars == <<now, engine_vars, dispatch_vars, sub_vars, task_vars, aux_vars>>

----------------------------------------------------------------------------
(* Bounds of the model *)

MaxCvd == 1             \* |cvd| is kept within this bound
MaxBatch == 2           \* tickers per batch
MinPumpSamples == 2     \* detection.rs:108,157 require 10 samples; scaled
MinAccumSamples == 2    \* detection.rs:206 requires 20 samples; scaled
MinDistSamples == 2     \* detection.rs:259 requires 30 samples; scaled
MaxEmitted == 4         \* alerts the engine sends to the dispatcher
Tier1ChannelSize == 1   \* capacity of the Tier 1 updates channel
MaxTasks == 4           \* trade-ingestion tasks spawned
MaxQueue == 3           \* alerts held by the priority queue
MinPricePoints == 3     \* pump_scanner/detector.rs:26 requires 10 price points; scaled
MaxCandles == 4         \* candles a tracker is fed
StreamChannelSize == 2  \* capacity of the stream channel
MaxConns == 3           \* trade-stream connections made
MaxScanUpdates == 6     \* price updates a tracker of the scanner is fed
MaxRequests == 2        \* scanner_api operations a client issues
MaxComments == 1        \* comments a pair holds

(* Configuration (config.rs), one concrete configuration *)

min_quote_volume == 10          \* FilterConfig, 1e6
min_price == 1
min_trades_24h == 100
stale_data_threshold_secs == 2
tier1_threshold == 700          \* ScoringConfig, 0.7
tier2_threshold == 400          \* 0.4
max_tier1_symbols == 1
volume_weight == 400            \* ScoringWeights 0.4 / 0.4 / 0.2
volatility_weight == 400
activity_weight == 200
pump_threshold_pct == 5         \* DetectionConfig
dump_threshold_pct == -5
accumulation_range_pct == 10
volume_spike_ratio == 3
breakout_threshold_pct == feed.breakout_threshold_pct  \* DetectionConfig, set per scenario
window_size_secs == 0
accumulation_window_secs == 1
distribution_window_secs == 1
price_window_size == 2          \* PerformanceConfig
cvd_history_size == 2
alert_channel_size == 2
alert_cooldown_secs == 300      \* TelegramConfig
max_alerts_per_minute == 2
reconnect_base_delay_secs == 1  \* WebSocketConfig
reconnect_max_delay_secs == 5
price_threshold_pct == 5        \* PumpConfig
price_window_mins == 1
min_window_mins == 1
max_window_mins == 2
volume_multiplier == 3

(* Constants written in the code *)

StateTimeoutSecs == 300         \* detection.rs:462
BreakoutWindowSecs == 30        \* detection.rs:308,349
NewHighWindowSecs == 300        \* detection.rs:129,178
SecondsPerDay == 86400          \* detection.rs:391
RateWindowSecs == 60            \* telegram.rs:79
FadeDropPct == 3                \* detector.rs:125, 129
CandidateMaxMins == 30
HistorySecs == 1200             \* pump_scanner/tracker.rs:62
VolumeHistoryCap == 60          \* pump_scanner/tracker.rs:67
CurrentVolumeSecs == 300        \* pump_scanner/tracker.rs:137
SecsPerMin == 60                \* pump_scanner/detector.rs:34, tracker.rs:111

None == -1                      \* Option::None of a Timestamp or price
NaN == -1000000                 \* f64::NAN; no number of the model is this small

Tiers == {"Tier1", "Tier2", "Ignored"}
MarketStates == {"Idle", "Accumulation", "BreakoutLong", "Distribution",
                 "BreakdownShort", "PumpDetected", "DumpDetected"}
AlertTypes == {"PumpDetected", "DumpDetected", "AccumulationDetected",
               "DistributionDetected", "LongSetupConfirmed", "ShortSetupConfirmed"}

----------------------------------------------------------------------------
(* Generic helpers *)

Range(seq) == {seq[i] : i \in 1..Len(seq)}

saturating_sub(a, b) == IF a >= b THEN a - b ELSE 0

Max2(a, b) == IF a >= b THEN a ELSE b
Min2(a, b) == IF a <= b THEN a ELSE b

\* f64::clamp(0.0, 1.0): NaN stays NaN
Clamp01(x) == IF x = NaN THEN NaN ELSE IF x < 0 THEN 0 ELSE IF x > 1000 THEN 1000 ELSE x

Abs(x) == IF x < 0 THEN -x ELSE x

RECURSIVE SumSeq(_)
SumSeq(seq) == IF seq = <<>> THEN 0 ELSE Head(seq) + SumSeq(Tail(seq))

\* floor(log10(n)) for n >= 1; exact on the powers of ten the feed carries
RECURSIVE Log10Floor(_)
Log10Floor(n) == IF n < 10 THEN 0 ELSE 1 + Log10Floor(n \div 10)

\* str.parse::<f64>(): a string field is [ok, val]; ok = FALSE is a parse error
Str(v) == [ok |-> TRUE, val |-> v]
BadStr == [ok |-> FALSE, val |-> 0]
parse_or_zero(s) == IF s.ok THEN s.val ELSE 0

\* push_back followed by pop_front while over capacity
RECURSIVE TrimFront(_, _)
TrimFront(seq, cap) == IF Len(seq) > cap THEN TrimFront(Tail(seq), cap) ELSE seq

\* a push that refuses the new entry when the window is full
push_drops_newest(seq, e, cap) == IF Len(seq) < cap THEN Append(seq, e) ELSE seq

push_bounded(seq, e, cap) == TrimFront(Append(seq, e), cap)

\* entries of a (ts, value) window with ts >= window_start, values only
RecentValues(window, window_start) ==
    LET InWin(e) == e[1] >= window_start
        kept == SelectSeq(window, InWin)
    IN [i \in 1..Len(kept) |-> kept[i][2]]

SeqMax(seq) == CHOOSE m \in Range(seq) : \A x \in Range(seq) : x <= m
SeqMin(seq) == CHOOSE m \in Range(seq) : \A x \in Range(seq) : x >= m

----------------------------------------------------------------------------
(* types.rs *)

\* SymbolData::new.  The 24h fields volume/high/low/open and last_alert_time
\* are never read by the engine, the scorer or the detector and are left out.
NewSymbolData(sym, t) ==
    [symbol |-> sym,
     price |-> 0,
     price_change_pct_24h |-> 0,
     quote_volume_24h |-> 0,
     trades_24h |-> 0,
     score |-> 0,
     tier |-> "Ignored",
     cvd |-> 0,
     cvd_history |-> <<>>,
     price_window |-> <<>>,
     volume_window |-> <<>>,
     state |-> "Idle",
     last_update_time |-> t,
     accumulation_start |-> None,
     accumulation_high |-> None,
     accumulation_low |-> None,
     distribution_start |-> None,
     distribution_high |-> None,
     distribution_low |-> None]

MkAlert(type, s, t) == [alert_type |-> type, symbol |-> s.symbol, price |-> s.price, timestamp |-> t]

----------------------------------------------------------------------------
(* scoring.rs *)

\* log10(quote_volume / 1e6) / 3, clamped; 10 units = 1e6.  NaN <= 0.0 is false
\* and log10, division and clamp hand a NaN on.
calculate_volume_score(quote_volume) ==
    IF quote_volume = NaN THEN NaN
    ELSE IF quote_volume <= 0 THEN 0
    ELSE Clamp01(((Log10Floor(quote_volume) - 1) * 1000) \div 3)

\* abs, division and clamp hand a NaN on
calculate_volatility_score(price_change_pct) ==
    IF price_change_pct = NaN THEN NaN
    ELSE Clamp01((Abs(price_change_pct) * 1000) \div 10)

\* trades_24h is a u64
calculate_activity_score(trades_24h) ==
    Clamp01((trades_24h * 1000) \div 10000)

\* a NaN term makes the weighted sum NaN, whatever its weight
calculate_score(s) ==
    LET volume_score == calculate_volume_score(s.quote_volume_24h)
        volatility_score == calculate_volatility_score(s.price_change_pct_24h)
        activity_score == calculate_activity_score(s.trades_24h)
    IN IF NaN \in {volume_score, volatility_score} THEN NaN
       ELSE Clamp01((volume_weight * volume_score
                     + volatility_weight * volatility_score
                     + activity_weight * activity_score) \div 1000)

assign_tier_exclusive(score) ==
    IF score > tier1_threshold THEN "Tier1"
    ELSE IF score > tier2_threshold THEN "Tier2"
    ELSE "Ignored"

\* score >= threshold is false for a NaN score, as it is for the number NaN stands for
assign_tier(score) ==
    IF score >= tier1_threshold THEN "Tier1"
    ELSE IF score >= tier2_threshold THEN "Tier2"
    ELSE "Ignored"

\* scoring.rs:66: the comparator |a, b| b.score.partial_cmp(&a.score).unwrap_or(Equal)
\* says Less, "a goes before b", when b's score is below a's; a NaN score
\* compares Equal to every score
goes_before(tbl, a, b) ==
    /\ tbl[a].score # NaN
    /\ tbl[b].score # NaN
    /\ tbl[b].score < tbl[a].score

\* one insertion of the stable sort: e moves left past the elements it goes before
RECURSIVE insert_sorted(_, _, _)
insert_sorted(tbl, sorted, e) ==
    IF sorted = <<>> THEN <<e>>
    ELSE IF goes_before(tbl, e, sorted[Len(sorted)])
         THEN Append(insert_sorted(tbl, SubSeq(sorted, 1, Len(sorted) - 1), e), sorted[Len(sorted)])
         ELSE Append(sorted, e)

\* scoring.rs:66: slice::sort_by, a stable sort, which for the few symbols of
\* the model is an insertion sort
RECURSIVE sort_by_score(_, _)
sort_by_score(tbl, order) ==
    IF order = <<>> THEN <<>>
    ELSE insert_sorted(tbl, sort_by_score(tbl, SubSeq(order, 1, Len(order) - 1)), order[Len(order)])

\* the selection that takes the symbols in the order it finds them
select_unsorted(tbl, order) ==
    LET Qualifies(k) == tbl[k].score # NaN /\ tbl[k].score >= tier1_threshold
        qual == SelectSeq(order, Qualifies)
    IN SubSeq(qual, 1, Min2(Len(qual), max_tier1_symbols))

\* scoring.rs:64-75 on the slice in the given order: sort, filter, take
select_in_order(tbl, order) ==
    LET Qualifies(k) == tbl[k].score # NaN /\ tbl[k].score >= tier1_threshold
        qual == SelectSeq(sort_by_score(tbl, order), Qualifies)
    IN SubSeq(qual, 1, Min2(Len(qual), max_tier1_symbols))

\* the orders self.symbols.values() can yield (engine.rs:85): any
Orders(S) == {o \in [1..Cardinality(S) -> S] : \A i, j \in 1..Cardinality(S) : i # j => o[i] # o[j]}

\* All the lists select_tier1_symbols can return for the table tbl: the slice
\* it is handed is in the iteration order of the HashMap, which is arbitrary.
select_tier1_symbols(tbl) == {select_in_order(tbl, o) : o \in Orders(DOMAIN tbl)}

----------------------------------------------------------------------------
(* detection.rs *)

\* recent_avg / baseline as the fraction num/den (0/1 where the code returns 0.0)
calculate_volume_ratio(s, window_start) ==
    LET recent_volumes == RecentValues(s.volume_window, window_start)
    IN IF recent_volumes = <<>> \/ s.quote_volume_24h = 0
       THEN [num |-> 0, den |-> 1]
       ELSE [num |-> SumSeq(recent_volumes) * SecondsPerDay,
             den |-> Len(recent_volumes) * s.quote_volume_24h]

\* ratio >= n/d
RatioAtLeast(r, n, d) == r.num * d >= n * r.den

calculate_cvd_slope(s, window_start) ==
    LET recent_cvd == RecentValues(s.cvd_history, window_start)
    IN IF Len(recent_cvd) < 2 THEN 0
       ELSE recent_cvd[Len(recent_cvd)] - recent_cvd[1]

\* sign of ((last - first) / first) * 100 - 0.1, as "trend > 0.1"
price_trend_above_tenth(s, window_start) ==
    LET recent_prices == RecentValues(s.price_window, window_start)
    IN IF Len(recent_prices) < 2 THEN FALSE
       ELSE (recent_prices[Len(recent_prices)] - recent_prices[1]) * 1000 > recent_prices[1]

\* price >= max * 0.999; the fold over an empty window gives -inf
is_new_high(s, t, window_secs) ==
    LET recent == RecentValues(s.price_window, saturating_sub(t, window_secs))
    IN recent = <<>> \/ s.price * 1000 >= SeqMax(recent) * 999

\* price <= min * 1.001; the fold over an empty window gives +inf
is_new_low(s, t, window_secs) ==
    LET recent == RecentValues(s.price_window, saturating_sub(t, window_secs))
    IN recent = <<>> \/ s.price * 1000 <= SeqMin(recent) * 1001

detect_pump(s, t) ==
    LET window_start == saturating_sub(t, window_size_secs)
        recent_prices == RecentValues(s.price_window, window_start)
    IN /\ Len(recent_prices) >= MinPumpSamples
       /\ (s.price - recent_prices[1]) * 100 >= pump_threshold_pct * recent_prices[1]
       /\ RatioAtLeast(calculate_volume_ratio(s, window_start), volume_spike_ratio, 1)
       /\ is_new_high(s, t, NewHighWindowSecs)

detect_dump(s, t) ==
    LET window_start == saturating_sub(t, window_size_secs)
        recent_prices == RecentValues(s.price_window, window_start)
    IN /\ Len(recent_prices) >= MinPumpSamples
       /\ (s.price - recent_prices[1]) * 100 <= dump_threshold_pct * recent_prices[1]
       /\ RatioAtLeast(calculate_volume_ratio(s, window_start), volume_spike_ratio, 1)
       /\ is_new_low(s, t, NewHighWindowSecs)

detect_accumulation(s, t) ==
    LET window_start == saturating_sub(t, accumulation_window_secs)
        recent_prices == RecentValues(s.price_window, window_start)
    IN /\ Len(recent_prices) >= MinAccumSamples
       /\ (SeqMax(recent_prices) - SeqMin(recent_prices)) * 100 < accumulation_range_pct * s.price
       /\ calculate_cvd_slope(s, window_start) > 0
       /\ RatioAtLeast(calculate_volume_ratio(s, window_start), 3, 2)
       /\ ~is_new_low(s, t, accumulation_window_secs)

detect_distribution(s, t) ==
    LET window_start == saturating_sub(t, distribution_window_secs)
        recent_prices == RecentValues(s.price_window, window_start)
    IN /\ Len(recent_prices) >= MinDistSamples
       /\ ~price_trend_above_tenth(s, window_start)
       /\ calculate_cvd_slope(s, window_start) <= 0
       /\ RatioAtLeast(calculate_volume_ratio(s, window_start), 3, 2)

\* the breakout check without its price condition
detect_breakout_long_any_price(s, t) ==
    LET window_start == saturating_sub(t, BreakoutWindowSecs)
    IN /\ s.accumulation_high # None
       /\ RatioAtLeast(calculate_volume_ratio(s, window_start), volume_spike_ratio, 1)
       /\ calculate_cvd_slope(s, window_start) > 0

detect_breakout_long(s, t) ==
    LET window_start == saturating_sub(t, BreakoutWindowSecs)
    IN /\ s.accumulation_high # None
       /\ s.price * 100 >= s.accumulation_high * (100 + breakout_threshold_pct)
       /\ RatioAtLeast(calculate_volume_ratio(s, window_start), volume_spike_ratio, 1)
       /\ calculate_cvd_slope(s, window_start) > 0

detect_breakdown_short(s, t) ==
    LET window_start == saturating_sub(t, BreakoutWindowSecs)
    IN /\ s.distribution_low # None
       /\ s.price * 100 <= s.distribution_low * (100 - breakout_threshold_pct)
       /\ RatioAtLeast(calculate_volume_ratio(s, window_start), volume_spike_ratio, 1)
       /\ calculate_cvd_slope(s, window_start) < 0

\* should_reset_state that never reports a timeout
should_reset_state_never(s, t) == FALSE

should_reset_state(s, t) ==
    LET state_start == IF s.state = "BreakoutLong" THEN s.accumulation_start
                       ELSE IF s.state = "BreakdownShort" THEN s.distribution_start
                       ELSE None
    IN state_start # None /\ saturating_sub(t, state_start) > StateTimeoutSecs

\* the momentum check changing the state without returning the alert
detect_momentum_silent(s, t) ==
    IF detect_pump(s, t) THEN [sym |-> [s EXCEPT !.state = "PumpDetected"], alerts |-> <<>>]
    ELSE IF detect_dump(s, t) THEN [sym |-> [s EXCEPT !.state = "DumpDetected"], alerts |-> <<>>]
    ELSE [sym |-> s, alerts |-> <<>>]

\* Lines 19-25: the momentum check; the symbol and the alerts after it
detect_momentum(s, t) ==
    IF detect_pump(s, t)
    THEN [sym |-> [s EXCEPT !.state = "PumpDetected"], alerts |-> <<MkAlert("PumpDetected", s, t)>>]
    ELSE IF detect_dump(s, t)
    THEN [sym |-> [s EXCEPT !.state = "DumpDetected"], alerts |-> <<MkAlert("DumpDetected", s, t)>>]
    ELSE [sym |-> s, alerts |-> <<>>]

\* the captured high replaced by the current price
extend_high_to_price(high, price) == IF high # None THEN price ELSE high

\* lines 47-49 and 62-64: the captured high takes in the current price
extend_high(high, price) == IF high # None THEN Max2(high, price) ELSE high

\* lines 50-52 and 65-67: the captured low takes in the current price
extend_low(low, price) == IF low # None THEN Min2(low, price) ELSE low

\* Lines 28-94: the range check, on the symbol the momentum check left
detect_range(s, t) ==
    IF s.cvd_history = <<>> THEN [sym |-> s, alerts |-> <<>>]
    ELSE IF s.state \in {"Idle", "PumpDetected", "DumpDetected"} THEN
        IF detect_accumulation(s, t)
        THEN [sym |-> [s EXCEPT !.state = "Accumulation",
                                !.accumulation_start = t,
                                !.accumulation_high = s.price,
                                !.accumulation_low = s.price],
              alerts |-> <<MkAlert("AccumulationDetected", s, t)>>]
        ELSE IF detect_distribution(s, t)
        THEN [sym |-> [s EXCEPT !.state = "Distribution",
                                !.distribution_start = t,
                                !.distribution_high = s.price,
                                !.distribution_low = s.price],
              alerts |-> <<MkAlert("DistributionDetected", s, t)>>]
        ELSE [sym |-> s, alerts |-> <<>>]
    ELSE IF s.state = "Accumulation" THEN
        LET s1 == [s EXCEPT
                     !.accumulation_high = extend_high(@, s.price),
                     !.accumulation_low = extend_low(@, s.price)]
        IN IF detect_breakout_long(s1, t)
           THEN [sym |-> [s1 EXCEPT !.state = "BreakoutLong"],
                 alerts |-> <<MkAlert("LongSetupConfirmed", s1, t)>>]
           ELSE [sym |-> s1, alerts |-> <<>>]
    ELSE IF s.state = "Distribution" THEN
        LET s1 == [s EXCEPT
                     !.distribution_high = extend_high(@, s.price),
                     !.distribution_low = extend_low(@, s.price)]
        IN IF detect_breakdown_short(s1, t)
           THEN [sym |-> [s1 EXCEPT !.state = "BreakdownShort"],
                 alerts |-> <<MkAlert("ShortSetupConfirmed", s1, t)>>]
           ELSE [sym |-> s1, alerts |-> <<>>]
    ELSE IF s.state = "BreakoutLong" THEN
        IF should_reset_state(s, t)
        THEN [sym |-> [s EXCEPT !.state = "Idle",
                                !.accumulation_start = None,
                                !.accumulation_high = None,
                                !.accumulation_low = None],
              alerts |-> <<>>]
        ELSE [sym |-> s, alerts |-> <<>>]
    ELSE \* BreakdownShort
        IF should_reset_state(s, t)
        THEN [sym |-> [s EXCEPT !.state = "Idle",
                                !.distribution_start = None,
                                !.distribution_high = None,
                                !.distribution_low = None],
              alerts |-> <<>>]
        ELSE [sym |-> s, alerts |-> <<>>]

\* detect pushing the momentum alert a second time
detect_pushes_twice(s, t) ==
    LET m == detect_momentum(s, t)
        r == detect_range(m.sym, t)
    IN [sym |-> r.sym, alerts |-> m.alerts \o m.alerts \o r.alerts]

\* Detector::detect: the symbol after the call and the alerts returned
detect(s, t) ==
    LET m == detect_momentum(s, t)
        r == detect_range(m.sym, t)
    IN [sym |-> r.sym, alerts |-> m.alerts \o r.alerts]

----------------------------------------------------------------------------
(* engine.rs *)

ends_with_USDT(sym) == sym \in {"AUSDT", "BUSDT", "CUSDT"}

\* hard filters that let every parseable ticker through
passes_hard_filters_parse_only(ticker) ==
    /\ ticker.quote_volume.ok
    /\ ticker.current_price.ok

\* lines 122-155
passes_hard_filters(ticker) ==
    /\ ends_with_USDT(ticker.symbol)
    /\ ticker.quote_volume.ok
    /\ ticker.current_price.ok
    /\ ~(ticker.quote_volume.val < min_quote_volume)
    /\ ~(ticker.current_price.val < min_price)
    /\ ~(ticker.number_of_trades < min_trades_24h)

update_symbol_from_ticker(s, ticker, t) ==
    LET price == parse_or_zero(ticker.current_price)
        quote_volume_24h == parse_or_zero(ticker.quote_volume)
    IN [s EXCEPT
          !.price = price,
          !.price_change_pct_24h = parse_or_zero(ticker.price_change_percent),
          !.quote_volume_24h = quote_volume_24h,
          !.trades_24h = ticker.number_of_trades,
          !.last_update_time = t,
          !.price_window = push_bounded(@, <<t, price>>, price_window_size),
          !.volume_window = push_bounded(@, <<t, quote_volume_24h>>, price_window_size)]

\* one iteration of the loop of process_ticker
process_one_ticker(tbl, ticker, t) ==
    IF ~passes_hard_filters(ticker) THEN tbl
    ELSE LET sym == ticker.symbol
             entry == IF sym \in DOMAIN tbl THEN tbl[sym] ELSE NewSymbolData(sym, t)
         IN [k \in DOMAIN tbl \cup {sym} |->
                IF k = sym THEN update_symbol_from_ticker(entry, ticker, t) ELSE tbl[k]]

RECURSIVE process_ticker(_, _, _)
process_ticker(tbl, tickers, t) ==
    IF tickers = <<>> THEN tbl
    ELSE process_ticker(process_one_ticker(tbl, Head(tickers), t), Tail(tickers), t)

\* update_cvd that adds the notional whatever the side of the trade
update_cvd_unsigned(s, trade, t) ==
    LET price == parse_or_zero(trade.price)
        quantity == parse_or_zero(trade.quantity)
        volume_usd == price * quantity
    IN IF price = 0 \/ quantity = 0 THEN s
       ELSE [s EXCEPT !.cvd = @ + volume_usd,
                      !.cvd_history = push_bounded(@, <<t, s.cvd + volume_usd>>, cvd_history_size)]

\* update_cvd that records the CVD before the trade
update_cvd_stale(s, trade, t) ==
    LET price == parse_or_zero(trade.price)
        quantity == parse_or_zero(trade.quantity)
        volume_usd == price * quantity
        delta == IF trade.is_buyer_maker THEN -volume_usd ELSE volume_usd
    IN IF price = 0 \/ quantity = 0 THEN s
       ELSE [s EXCEPT !.cvd = @ + delta,
                      !.cvd_history = push_bounded(@, <<t, s.cvd>>, cvd_history_size)]

\* lines 196-222
update_cvd(s, trade, t) ==
    LET price == parse_or_zero(trade.price)
        quantity == parse_or_zero(trade.quantity)
        volume_usd == price * quantity
        delta == IF trade.is_buyer_maker THEN -volume_usd ELSE volume_usd
    IN IF price = 0 \/ quantity = 0 THEN s
       ELSE [s EXCEPT !.cvd = @ + delta,
                      !.cvd_history = push_bounded(@, <<t, s.cvd + delta>>, cvd_history_size)]

\* process_trade without the tier check
process_trade_any_tier(tbl, trade, t) ==
    IF trade.symbol \notin DOMAIN tbl THEN [tbl |-> tbl, alerts |-> <<>>]
    ELSE LET d == detect(update_cvd(tbl[trade.symbol], trade, t), t)
         IN [tbl |-> [tbl EXCEPT ![trade.symbol] = d.sym], alerts |-> d.alerts]

\* process_trade: the table after the call and the alerts returned
process_trade(tbl, trade, t) ==
    IF trade.symbol \notin DOMAIN tbl THEN [tbl |-> tbl, alerts |-> <<>>]
    ELSE IF tbl[trade.symbol].tier # "Tier1" THEN [tbl |-> tbl, alerts |-> <<>>]
    ELSE LET d == detect(update_cvd(tbl[trade.symbol], trade, t), t)
         IN [tbl |-> [tbl EXCEPT ![trade.symbol] = d.sym], alerts |-> d.alerts]

\* rescore_symbols that evicts nothing
retain_all(tbl, t) == tbl

\* lines 74-77
retain_fresh(tbl, t) ==
    LET kept == {k \in DOMAIN tbl :
                    saturating_sub(t, tbl[k].last_update_time) <= stale_data_threshold_secs}
    IN [k \in kept |-> tbl[k]]

\* lines 80-82
score_all(tbl) == [k \in DOMAIN tbl |-> [tbl[k] EXCEPT !.score = calculate_score(tbl[k])]]

\* update_tier without the clearing of the Tier 1 data of a downgraded symbol
update_tier_keeps_data(s, selected) ==
    IF selected THEN [s EXCEPT !.tier = "Tier1"]
    ELSE [s EXCEPT !.tier = assign_tier(s.score)]

\* lines 91-108, for one symbol; selected = it is in the list select_tier1_symbols returned
update_tier(s, selected) ==
    IF selected THEN [s EXCEPT !.tier = "Tier1"]
    ELSE LET tier == assign_tier(s.score)
         IN IF tier # "Tier1"
            THEN [s EXCEPT !.tier = tier, !.cvd = 0, !.cvd_history = <<>>, !.state = "Idle"]
            ELSE [s EXCEPT !.tier = tier]

\* rescore_symbols after select_tier1_symbols has returned tier1_symbols
apply_tiers(scored, tier1_symbols) ==
    [k \in DOMAIN scored |-> update_tier(scored[k], k \in Range(tier1_symbols))]

----------------------------------------------------------------------------
(* The feed: what ticker batches and trades can arrive *)

Ticker(sym, price, pct, qv, n) ==
    [symbol |-> sym, current_price |-> price, price_change_percent |-> pct,
     quote_volume |-> qv, number_of_trades |-> n]

\* score 866 (Tier1), 466 (Tier2, unparseable percent change), 286 (Ignored)
ProfileHi == <<Str(10), Str(1000), 10000>>
ProfileMid == <<BadStr, Str(1000), 10000>>
ProfileLo == <<Str(0), Str(1000), 1000>>

GoodTickers(syms, prices, profiles) ==
    {Ticker(sym, Str(p), pr[1], pr[2], pr[3]) : sym \in syms, p \in prices, pr \in profiles}

\* tickers that fail a hard filter
RejectedTickers ==
    { Ticker("ABTC", Str(1000), Str(10), Str(1000), 10000),
      Ticker("AUSDT", Str(1000), Str(10), BadStr, 10000),
      Ticker("AUSDT", BadStr, Str(10), Str(1000), 10000),
      Ticker("AUSDT", Str(1000), Str(10), Str(1), 10000),
      Ticker("AUSDT", Str(0), Str(10), Str(1000), 10000),
      Ticker("AUSDT", Str(1000), Str(10), Str(1000), 50) }

TradesOf(syms, quantities, makers) ==
    {[symbol |-> sym, price |-> Str(1), quantity |-> q, is_buyer_maker |-> m] :
        sym \in syms, q \in quantities, m \in makers}

\* one symbol whose price moves, observed in two consecutive seconds
MovingFeed ==
    [syms |-> {"AUSDT"},
     tickers |-> GoodTickers({"AUSDT"}, {1000, 1100}, {ProfileHi, ProfileLo}) \cup RejectedTickers,
     trades |-> TradesOf({"AUSDT", "ABTC"}, {Str(1), BadStr}, BOOLEAN),
     times |-> {0, 1},
     breakout_threshold_pct |-> 1]

\* two symbols at a steady price competing for the Tier 1 places
CompetingFeed ==
    [syms |-> {"AUSDT", "BUSDT"},
     tickers |-> GoodTickers({"AUSDT", "BUSDT"}, {1000}, {ProfileHi, ProfileMid, ProfileLo})
                    \cup {Ticker("ABTC", Str(1000), Str(10), Str(1000), 10000)},
     trades |-> TradesOf({"AUSDT", "BUSDT"}, {Str(1)}, {FALSE}),
     times |-> {0, StateTimeoutSecs + 1},
     breakout_threshold_pct |-> 1]

Feeds == {MovingFeed, CompetingFeed}

\* one symbol whose price moves, before and after the state timeout, under a
\* configuration whose breakout threshold is zero
BreakoutFeed ==
    [syms |-> {"AUSDT"},
     tickers |-> GoodTickers({"AUSDT"}, {1000, 1100}, {ProfileHi}),
     trades |-> TradesOf({"AUSDT"}, {Str(1)}, BOOLEAN),
     times |-> {0, StateTimeoutSecs + 1},
     breakout_threshold_pct |-> 0]

\* the same feed under a breakout threshold of one percent
PositiveFeed == [BreakoutFeed EXCEPT !.breakout_threshold_pct = 1]

\* the zero-threshold feed with tickers that also lower the score
MachineFeed ==
    [BreakoutFeed EXCEPT !.tickers = GoodTickers({"AUSDT"}, {1000, 1100}, {ProfileHi, ProfileLo})]

\* score 766 (Tier1), and a 24h change the exchange reports as "NaN"
ProfileHi2 == <<Str(10), Str(1000), 5000>>
ProfileNaN == <<Str(NaN), Str(1000), 10000>>

\* three symbols: one scoring 766, one with a NaN score, one scoring 866
NanFeed ==
    [syms |-> {"AUSDT", "BUSDT", "CUSDT"},
     tickers |-> GoodTickers({"AUSDT"}, {1000}, {ProfileHi2})
                    \cup GoodTickers({"BUSDT"}, {1000}, {ProfileNaN})
                    \cup GoodTickers({"CUSDT"}, {1000}, {ProfileHi}),
     trades |-> TradesOf({"AUSDT"}, {Str(1)}, BOOLEAN),
     times |-> {0, 1},
     breakout_threshold_pct |-> 1]

\* one symbol that rises and falls in score, and a ticker the engine rejects
TaskFeed ==
    [syms |-> {"AUSDT"},
     tickers |-> GoodTickers({"AUSDT"}, {1000}, {ProfileHi, ProfileLo})
                    \cup {Ticker("ABTC", Str(1000), Str(10), Str(1000), 10000)},
     trades |-> TradesOf({"AUSDT"}, {Str(1)}, BOOLEAN),
     times |-> {0, 1},
     breakout_threshold_pct |-> 1]

\* one symbol and trades of several notionals, in both directions, with
\* unparseable and zero fields, and for a symbol the engine does not track
CvdFeed ==
    [syms |-> {"AUSDT"},
     tickers |-> GoodTickers({"AUSDT"}, {1000}, {ProfileHi, ProfileLo}),
     trades |-> {[symbol |-> sym, price |-> p, quantity |-> q, is_buyer_maker |-> m] :
                    sym \in {"AUSDT", "ABTC"}, p \in {Str(2), BadStr},
                    q \in {Str(3), Str(0)}, m \in BOOLEAN},
     times |-> {0, 1, 3},
     breakout_threshold_pct |-> 1,
     max_cvd |-> 12]

\* |cvd| is kept within MaxCvd, or within the bound the feed names
CvdBound == IF "max_cvd" \in DOMAIN feed THEN feed.max_cvd ELSE MaxCvd

\* two symbols with acceptable tickers, and tickers that fail each hard filter
FilterFeed ==
    [syms |-> {"AUSDT", "BUSDT"},
     tickers |-> GoodTickers({"AUSDT"}, {1000}, {ProfileHi})
                    \cup GoodTickers({"BUSDT"}, {1000}, {ProfileLo})
                    \cup RejectedTickers,
     trades |-> TradesOf({"AUSDT"}, {Str(1)}, {FALSE}),
     times |-> {0, 1},
     breakout_threshold_pct |-> 1]

\* the feed of the engine task, with a Tier 1 updates channel of two places
RescoreFeed ==
    [syms |-> {"AUSDT"},
     tickers |-> GoodTickers({"AUSDT"}, {1000}, {ProfileHi, ProfileLo}),
     trades |-> TradesOf({"AUSDT"}, {Str(1)}, {FALSE}),
     times |-> {0, 1},
     breakout_threshold_pct |-> 1,
     tier1_channel |-> 2]

\* capacity of the Tier 1 updates channel: Tier1ChannelSize, or what the feed names
Tier1Capacity ==
    IF "tier1_channel" \in DOMAIN feed THEN feed.tier1_channel ELSE Tier1ChannelSize

Batches(f) ==
    {b \in UNION {[1..n -> f.tickers] : n \in 1..MaxBatch} :
        \A i, j \in 1..Len(b) : i < j => b[i].symbol # b[j].symbol}

----------------------------------------------------------------------------
(* The engine task, signal_engine_task: one step per select! arm *)

Tier1Of(tbl) == {k \in DOMAIN tbl : tbl[k].tier = "Tier1"}

EngineInit ==
    /\ feed \in Feeds
    /\ symbols = <<>>
    /\ alerts = <<>>
    /\ tier1_list = <<>>

ProcessTicker ==
    \E batch \in Batches(feed) :
        /\ symbols' = process_ticker(symbols, batch, now)
        /\ alerts' = <<>>
        /\ UNCHANGED <<now, feed, tier1_list, dispatch_vars, sub_vars, task_vars, aux_vars>>

ProcessTrade ==
    \E trade \in feed.trades :
        LET r == process_trade(symbols, trade, now)
        IN /\ \A k \in DOMAIN r.tbl : Abs(r.tbl[k].cvd) <= CvdBound
           /\ symbols' = r.tbl
           /\ alerts' = r.alerts
           /\ UNCHANGED <<now, feed, tier1_list, dispatch_vars, sub_vars, task_vars, aux_vars>>

NoTrade == [symbol |-> "", price |-> BadStr, quantity |-> BadStr, is_buyer_maker |-> FALSE]

TradeIdle == last_trade = NoTrade

\* process_trade, with the trade it was handed kept
HandleTrade ==
    \E trade \in feed.trades :
        LET r == process_trade(symbols, trade, now)
        IN /\ \A k \in DOMAIN r.tbl : Abs(r.tbl[k].cvd) <= CvdBound
           /\ symbols' = r.tbl
           /\ alerts' = r.alerts
           /\ last_trade' = trade
           /\ UNCHANGED <<now, feed, tier1_list, dispatch_vars, sub_vars, task_vars,
                          queue_vars, score_vars, pump_vars, stream_vars, conn_vars,
                          scan_vars, api_vars>>

RescoreSymbols ==
    LET scored == score_all(retain_fresh(symbols, now))
    IN \E tier1_symbols \in select_tier1_symbols(scored) :
        /\ symbols' = apply_tiers(scored, tier1_symbols)
        /\ tier1_list' = tier1_symbols
        /\ alerts' = <<>>
        /\ UNCHANGED <<now, feed, dispatch_vars, sub_vars, task_vars, aux_vars>>

Tick ==
    \E t \in feed.times :
        /\ t > now
        /\ now' = t
        /\ alerts' = <<>>
        /\ UNCHANGED <<feed, symbols, tier1_list, dispatch_vars, sub_vars, task_vars, aux_vars>>

----------------------------------------------------------------------------
(* telegram.rs: TelegramDispatcher *)

AlertKey(alert) == <<alert.symbol, alert.alert_type>>

\* check_cooldown with > for >=
check_cooldown_strict(lat, alert) ==
    IF AlertKey(alert) \in DOMAIN lat
    THEN saturating_sub(alert.timestamp, lat[AlertKey(alert)]) > alert_cooldown_secs
    ELSE TRUE

check_cooldown(lat, alert) ==
    IF AlertKey(alert) \in DOMAIN lat
    THEN saturating_sub(alert.timestamp, lat[AlertKey(alert)]) >= alert_cooldown_secs
    ELSE TRUE

\* check_rate_limit: the pruned window and the verdict
check_rate_limit(atm, t) ==
    LET one_minute_ago == saturating_sub(t, RateWindowSecs)
        Recent(ts) == ts >= one_minute_ago
        kept == SelectSeq(atm, Recent)
    IN [alerts_this_minute |-> kept, ok |-> Len(kept) < max_alerts_per_minute]

Insert(f, k, v) == [x \in DOMAIN f \cup {k} |-> IF x = k THEN v ELSE f[x]]

\* send_alert recording the alert before the message is sent
send_alert_records_first(lat, atm, alert, t, delivery_ok) ==
    IF ~check_cooldown(lat, alert)
    THEN [last_alert_times |-> lat, alerts_this_minute |-> atm, outcome |-> "cooldown"]
    ELSE LET rl == check_rate_limit(atm, t)
         IN IF ~rl.ok
            THEN [last_alert_times |-> lat, alerts_this_minute |-> rl.alerts_this_minute,
                  outcome |-> "rate_limit"]
            ELSE [last_alert_times |-> Insert(lat, AlertKey(alert), alert.timestamp),
                  alerts_this_minute |-> Append(rl.alerts_this_minute, alert.timestamp),
                  outcome |-> IF delivery_ok THEN "sent" ELSE "failed"]

\* send_alert: the trackers after the call and how the call ended;
\* delivery_ok is the result of send_telegram_message
send_alert(lat, atm, alert, t, delivery_ok) ==
    IF ~check_cooldown(lat, alert)
    THEN [last_alert_times |-> lat, alerts_this_minute |-> atm, outcome |-> "cooldown"]
    ELSE LET rl == check_rate_limit(atm, t)
         IN IF ~rl.ok
            THEN [last_alert_times |-> lat, alerts_this_minute |-> rl.alerts_this_minute,
                  outcome |-> "rate_limit"]
            ELSE IF delivery_ok
            THEN [last_alert_times |-> Insert(lat, AlertKey(alert), alert.timestamp),
                  alerts_this_minute |-> Append(rl.alerts_this_minute, alert.timestamp),
                  outcome |-> "sent"]
            ELSE [last_alert_times |-> lat, alerts_this_minute |-> rl.alerts_this_minute,
                  outcome |-> "failed"]

NoAlert == [alert_type |-> "", symbol |-> "", timestamp |-> 0]

DispatchIdle ==
    /\ alert_rx = <<>>
    /\ emitted = 0
    /\ last_alert_times = <<>>
    /\ alerts_this_minute = <<>>
    /\ handled = [alert |-> NoAlert, outcome |-> "none", prev |-> None]
    /\ delivered = <<>>

\* the alerts the engine can send and the instants at which the tasks are observed
DispatchSymbols == {"AUSDT", "BUSDT"}
DispatchTypes == {"PumpDetected", "LongSetupConfirmed"}
DispatchTimes == {0, RateWindowSecs, RateWindowSecs + 1, alert_cooldown_secs}

\* signal_engine_task, lines 287-291: an alert stamped with the current time
\* (detection.rs: timestamp: now) enters the alerts channel
EmitAlert ==
    \E sym \in DispatchSymbols, type \in DispatchTypes :
        /\ emitted < MaxEmitted
        /\ Len(alert_rx) < alert_channel_size
        /\ alert_rx' = Append(alert_rx, [alert_type |-> type, symbol |-> sym, timestamp |-> now])
        /\ emitted' = emitted + 1
        /\ UNCHANGED <<now, last_alert_times, alerts_this_minute, handled, delivered,
                       engine_vars, sub_vars, task_vars, aux_vars>>

\* alert_dispatcher_task: one iteration of the while-let loop
DispatchAlert ==
    /\ alert_rx # <<>>
    /\ \E delivery_ok \in BOOLEAN :
        LET alert == Head(alert_rx)
            r == send_alert(last_alert_times, alerts_this_minute, alert, now, delivery_ok)
        IN /\ alert_rx' = Tail(alert_rx)
           /\ last_alert_times' = r.last_alert_times
           /\ alerts_this_minute' = r.alerts_this_minute
           /\ handled' = [alert |-> alert, outcome |-> r.outcome,
                          prev |-> IF AlertKey(alert) \in DOMAIN last_alert_times
                                   THEN last_alert_times[AlertKey(alert)] ELSE None]
           /\ delivered' = IF r.outcome = "sent"
                           THEN Append(delivered, [alert |-> alert, at |-> now])
                           ELSE delivered
    /\ UNCHANGED <<now, emitted, engine_vars, sub_vars, task_vars, aux_vars>>

DispatchTick ==
    \E t \in DispatchTimes :
        /\ t > now
        /\ now' = t
        /\ UNCHANGED <<dispatch_vars, engine_vars, sub_vars, task_vars, aux_vars>>

----------------------------------------------------------------------------
(* streams.rs: TradeStreamSubscriptionManager *)

\* subscribe without the contains_key check
subscribe_unchecked(streams, running, next, symbol) ==
    [active_streams |-> Insert(streams, symbol, next + 1),
     tasks |-> running \cup {[id |-> next + 1, symbol |-> symbol]},
     next_handle |-> next + 1]

\* subscribe, under the write lock: the map, the running tasks and the handle counter
subscribe(streams, running, next, symbol) ==
    IF symbol \in DOMAIN streams
    THEN [active_streams |-> streams, tasks |-> running, next_handle |-> next]
    ELSE [active_streams |-> Insert(streams, symbol, next + 1),
          tasks |-> running \cup {[id |-> next + 1, symbol |-> symbol]},
          next_handle |-> next + 1]

\* unsubscribe, under the write lock: remove the handle and abort its task
unsubscribe(streams, running, symbol) ==
    IF symbol \in DOMAIN streams
    THEN [active_streams |-> [k \in DOMAIN streams \ {symbol} |-> streams[k]],
          tasks |-> {task \in running : task.id # streams[symbol]}]
    ELSE [active_streams |-> streams, tasks |-> running]

\* update_subscriptions whose second loop subscribes to nothing
todo_subscribe_none(target, current) == {}

\* lines 253 and 258: the two set differences update_subscriptions iterates over
todo_unsubscribe(target, current) == current \ target
todo_subscribe(target, current) == target \ current

SubSymbols == {"AUSDT", "BUSDT", "CUSDT"}

\* the Tier 1 lists the engine can publish
Tier1Lists == {<<>>} \cup {<<a>> : a \in SubSymbols} \cup {<<a, b>> : a, b \in SubSymbols}

NoCall == [op |-> "none", symbol |-> "", was_active |-> FALSE, changed |-> FALSE]
NoUpdate == [pc |-> "idle", target |-> {}, unsub |-> {}, sub |-> {}, before |-> <<>>,
             spawned |-> 0, completed |-> FALSE]

SubIdle ==
    /\ active_streams = <<>>
    /\ tasks = {}
    /\ next_handle = 0
    /\ upd = NoUpdate
    /\ last_call = NoCall

SubUnchanged == UNCHANGED <<now, engine_vars, dispatch_vars, task_vars, aux_vars>>

\* update_subscriptions, lines 245-250: snapshot of the keys under the read lock
StartUpdate ==
    \E tier1_symbols \in Tier1Lists :
        LET current_symbols == DOMAIN active_streams
            target_symbols == Range(tier1_symbols)
        IN /\ upd.pc = "idle"
           /\ upd' = [pc |-> "running",
                      target |-> target_symbols,
                      unsub |-> todo_unsubscribe(target_symbols, current_symbols),
                      sub |-> todo_subscribe(target_symbols, current_symbols),
                      before |-> active_streams,
                      spawned |-> next_handle,
                      completed |-> FALSE]
           /\ UNCHANGED <<active_streams, tasks, next_handle, last_call>>
           /\ SubUnchanged

\* one iteration of the loop of lines 253-255
UpdateUnsubscribe ==
    \E symbol \in upd.unsub :
        LET r == unsubscribe(active_streams, tasks, symbol)
        IN /\ upd.pc = "running"
           /\ active_streams' = r.active_streams
           /\ tasks' = r.tasks
           /\ upd' = [upd EXCEPT !.unsub = @ \ {symbol}]
           /\ last_call' = [op |-> "unsubscribe", symbol |-> symbol,
                            was_active |-> symbol \in DOMAIN active_streams,
                            changed |-> r.active_streams # active_streams \/ r.tasks # tasks]
           /\ UNCHANGED next_handle
           /\ SubUnchanged

\* one iteration of the loop of lines 258-260
UpdateSubscribe ==
    \E symbol \in upd.sub :
        LET r == subscribe(active_streams, tasks, next_handle, symbol)
        IN /\ upd.pc = "running"
           /\ upd.unsub = {}
           /\ r.next_handle <= MaxTasks
           /\ active_streams' = r.active_streams
           /\ tasks' = r.tasks
           /\ next_handle' = r.next_handle
           /\ upd' = [upd EXCEPT !.sub = @ \ {symbol}]
           /\ last_call' = [op |-> "subscribe", symbol |-> symbol,
                            was_active |-> symbol \in DOMAIN active_streams,
                            changed |-> r.active_streams # active_streams \/ r.tasks # tasks]
           /\ SubUnchanged

\* update_subscriptions returns
FinishUpdate ==
    /\ upd.pc = "running"
    /\ upd.unsub = {}
    /\ upd.sub = {}
    /\ upd' = [upd EXCEPT !.pc = "idle", !.completed = TRUE]
    /\ UNCHANGED <<active_streams, tasks, next_handle, last_call>>
    /\ SubUnchanged

\* connect_trade_stream returns (Close frame, end of stream, channel closed):
\* the task ends, its handle stays in the map
TaskEnds ==
    \E task \in tasks :
        /\ tasks' = tasks \ {task}
        /\ UNCHANGED <<active_streams, next_handle, upd, last_call>>
        /\ SubUnchanged

\* subscribe called by another task holding the manager
CallSubscribe ==
    \E symbol \in SubSymbols :
        LET r == subscribe(active_streams, tasks, next_handle, symbol)
        IN /\ r.next_handle <= MaxTasks
           /\ active_streams' = r.active_streams
           /\ tasks' = r.tasks
           /\ next_handle' = r.next_handle
           /\ last_call' = [op |-> "subscribe", symbol |-> symbol,
                            was_active |-> symbol \in DOMAIN active_streams,
                            changed |-> r.active_streams # active_streams \/ r.tasks # tasks]
           /\ UNCHANGED upd
           /\ SubUnchanged

\* unsubscribe called by another task holding the manager
CallUnsubscribe ==
    \E symbol \in SubSymbols :
        LET r == unsubscribe(active_streams, tasks, symbol)
        IN /\ active_streams' = r.active_streams
           /\ tasks' = r.tasks
           /\ last_call' = [op |-> "unsubscribe", symbol |-> symbol,
                            was_active |-> symbol \in DOMAIN active_streams,
                            changed |-> r.active_streams # active_streams \/ r.tasks # tasks]
           /\ UNCHANGED <<next_handle, upd>>
           /\ SubUnchanged

----------------------------------------------------------------------------
(* engine.rs: signal_engine_task, statement by statement *)

NoMessage == [kind |-> "none", tbl |-> <<>>, batch |-> <<>>, at |-> 0]

TaskIdle ==
    /\ engine_pc = "select"
    /\ task_batch = <<>>
    /\ task_begin = NoMessage
    /\ tier1_rx = <<>>

\* select! polls its branches only when the loop is back at line 278
select_anywhere(pc) == TRUE

select_ready(pc) == pc = "select"

TaskUnchanged == UNCHANGED <<feed, emitted, last_alert_times, alerts_this_minute, handled,
                             delivered, sub_vars, aux_vars>>

\* lines 279-283: a ticker batch is received and process_ticker is entered
RecvTicker ==
    \E batch \in Batches(feed) :
        /\ select_ready(engine_pc)
        /\ engine_pc' = "process_ticker"
        /\ task_batch' = batch
        /\ task_begin' = [kind |-> "ticker", tbl |-> symbols, batch |-> batch, at |-> now]
        /\ UNCHANGED <<now, symbols, alerts, tier1_list, alert_rx, tier1_rx>>
        /\ TaskUnchanged

\* process_ticker, lines 31-41: one iteration of the loop over the batch
ApplyTicker ==
    /\ engine_pc = "process_ticker"
    /\ task_batch # <<>>
    /\ symbols' = process_one_ticker(symbols, Head(task_batch), now)
    /\ task_batch' = Tail(task_batch)
    /\ UNCHANGED <<now, alerts, tier1_list, alert_rx, tier1_rx, engine_pc, task_begin>>
    /\ TaskUnchanged

\* process_ticker returns and the loop goes back to select!
EndTicker ==
    /\ engine_pc = "process_ticker"
    /\ task_batch = <<>>
    /\ engine_pc' = "select"
    /\ task_begin' = NoMessage
    /\ UNCHANGED <<now, symbols, alerts, tier1_list, alert_rx, tier1_rx, task_batch>>
    /\ TaskUnchanged

\* lines 284-285: a trade is received and process_trade runs
RecvTrade ==
    \E trade \in feed.trades :
        LET r == process_trade(symbols, trade, now)
        IN /\ select_ready(engine_pc)
           /\ \A k \in DOMAIN r.tbl : Abs(r.tbl[k].cvd) <= CvdBound
           /\ symbols' = r.tbl
           /\ alerts' = r.alerts
           /\ engine_pc' = IF r.alerts = <<>> THEN "select" ELSE "send_alert"
           /\ task_begin' = IF r.alerts = <<>> THEN NoMessage
                            ELSE [kind |-> "trade", tbl |-> symbols, batch |-> <<trade>>, at |-> now]
           /\ UNCHANGED <<now, tier1_list, alert_rx, tier1_rx, task_batch>>
           /\ TaskUnchanged

\* lines 286-290: alert_tx.send(alert).await, which completes when the channel has room
SendAlert ==
    /\ engine_pc = "send_alert"
    /\ Len(alert_rx) < alert_channel_size
    /\ alert_rx' = Append(alert_rx, Head(alerts))
    /\ alerts' = Tail(alerts)
    /\ engine_pc' = IF Tail(alerts) = <<>> THEN "select" ELSE "send_alert"
    /\ task_begin' = IF Tail(alerts) = <<>> THEN NoMessage ELSE task_begin
    /\ UNCHANGED <<now, symbols, tier1_list, tier1_rx, task_batch>>
    /\ TaskUnchanged

\* lines 296-298: the rescore timer fires and rescore_symbols runs
RescoreTick ==
    LET scored == score_all(retain_fresh(symbols, now))
    IN \E tier1_symbols \in select_tier1_symbols(scored) :
        /\ select_ready(engine_pc)
        /\ symbols' = apply_tiers(scored, tier1_symbols)
        /\ tier1_list' = tier1_symbols
        /\ engine_pc' = "send_tier1"
        /\ task_begin' = [kind |-> "rescore", tbl |-> symbols, batch |-> <<>>, at |-> now]
        /\ UNCHANGED <<now, alerts, alert_rx, tier1_rx, task_batch>>
        /\ TaskUnchanged

\* lines 301-303: tier1_tx.send(tier1_symbols).await
SendTier1 ==
    /\ engine_pc = "send_tier1"
    /\ Len(tier1_rx) < Tier1Capacity
    /\ tier1_rx' = Append(tier1_rx, tier1_list)
    /\ engine_pc' = "select"
    /\ task_begin' = NoMessage
    /\ UNCHANGED <<now, symbols, alerts, tier1_list, alert_rx, task_batch>>
    /\ TaskUnchanged

\* alert_dispatcher_task takes the next alert off the channel
AlertRecv ==
    /\ alert_rx # <<>>
    /\ alert_rx' = Tail(alert_rx)
    /\ UNCHANGED <<now, symbols, alerts, tier1_list, task_vars, aux_vars>>
    /\ TaskUnchanged

\* the subscription manager task takes the next Tier 1 list off the channel
Tier1Recv ==
    /\ tier1_rx # <<>>
    /\ tier1_rx' = Tail(tier1_rx)
    /\ UNCHANGED <<now, symbols, alerts, tier1_list, alert_rx, engine_pc, task_batch, task_begin>>
    /\ TaskUnchanged

\* the clock advances while the task is suspended at an await
TaskTick ==
    \E t \in feed.times :
        /\ engine_pc # "process_ticker"
        /\ t > now
        /\ now' = t
        /\ UNCHANGED <<symbols, alerts, tier1_list, alert_rx, task_vars, aux_vars>>
        /\ TaskUnchanged

----------------------------------------------------------------------------
(* telegram.rs: AlertPriorityQueue *)

\* lines 181-190
get_priority(alert_type) ==
    CASE alert_type \in {"LongSetupConfirmed", "ShortSetupConfirmed"} -> 10
      [] alert_type \in {"AccumulationDetected", "DistributionDetected"} -> 7
      [] alert_type \in {"PumpDetected", "DumpDetected"} -> 5

\* the queue left as push left it
sort_not(q) == q

\* lines 173-179: Vec::sort_by is a stable sort; the comparator orders by
\* descending priority.  Computed as a stable insertion of each element in turn.
RECURSIVE sort(_)
sort(q) ==
    IF q = <<>> THEN <<>>
    ELSE LET s == sort(SubSeq(q, 1, Len(q) - 1))
             a == q[Len(q)]
             n == Cardinality({i \in 1..Len(s) :
                     get_priority(s[i].alert_type) >= get_priority(a.alert_type)})
         IN SubSeq(s, 1, n) \o <<a>> \o SubSeq(s, n + 1, Len(s))

\* lines 152-155
push(q, alert) == sort(Append(q, alert))

\* lines 157-163: [queue, result]; result NoAlert is Option::None
pop(q) ==
    IF q = <<>> THEN [queue |-> q, result |-> NoAlert]
    ELSE [queue |-> Tail(q), result |-> Head(q)]

QueueIdle ==
    /\ pq = <<>>
    /\ popped = NoAlert

QueueAlerts ==
    {[alert_type |-> ty, symbol |-> sym, timestamp |-> 0] :
        ty \in AlertTypes, sym \in {"AUSDT", "BUSDT"}}

Push ==
    \E alert \in QueueAlerts :
        /\ Len(pq) < MaxQueue
        /\ pq' = push(pq, alert)
        /\ UNCHANGED <<now, popped, engine_vars, dispatch_vars, sub_vars, task_vars,
                       score_vars, pump_vars, stream_vars, conn_vars, trade_vars, scan_vars, api_vars>>

Pop ==
    /\ pq' = pop(pq).queue
    /\ popped' = pop(pq).result
    /\ UNCHANGED <<now, engine_vars, dispatch_vars, sub_vars, task_vars,
                   score_vars, pump_vars, stream_vars, conn_vars, trade_vars, scan_vars, api_vars>>

----------------------------------------------------------------------------
(* scoring.rs driven on its own *)

NoSnapshot == [quote_volume_24h |-> 0, price_change_pct_24h |-> 0, trades_24h |-> 0]

ScoreIdle ==
    /\ score_in = NoSnapshot
    /\ score_out = 0
    /\ tier_out = "Ignored"
    /\ score_prev = [score |-> 0, tier |-> "Ignored"]
    /\ score_pc = "calculate"

\* quote volumes from negative to beyond 1e9, 24h changes of either sign and
\* "NaN" (which str::parse::<f64> accepts), trade counts up to twice the scale
Snapshots ==
    [quote_volume_24h : {-10, 0, 1, 10, 1000, 10000, 1000000},
     price_change_pct_24h : {-20, -5, 0, 5, 10, NaN},
     trades_24h : {0, 5000, 10000, 20000}]

\* scoring.rs:13-24
CalculateScore ==
    /\ score_pc = "calculate"
    /\ score_out' = calculate_score(score_in)
    /\ score_pc' = "assign"
    /\ UNCHANGED <<now, score_in, tier_out, score_prev, engine_vars, dispatch_vars, sub_vars, task_vars,
                   queue_vars, pump_vars, stream_vars, conn_vars, trade_vars, scan_vars, api_vars>>

\* scoring.rs:54-62
AssignTier ==
    /\ score_pc = "assign"
    /\ tier_out' = assign_tier(score_out)
    /\ score_pc' = "done"
    /\ UNCHANGED <<now, score_in, score_out, score_prev, engine_vars, dispatch_vars, sub_vars, task_vars,
                   queue_vars, pump_vars, stream_vars, conn_vars, trade_vars, scan_vars, api_vars>>

\* the next snapshot is handed over
NextSnapshot ==
    /\ score_pc = "done"
    /\ score_prev' = [score |-> score_out, tier |-> tier_out]
    /\ score_in' \in Snapshots
    /\ score_pc' = "calculate"
    /\ UNCHANGED <<now, score_out, tier_out, engine_vars, dispatch_vars, sub_vars, task_vars,
                   queue_vars, pump_vars, stream_vars, conn_vars, trade_vars, scan_vars, api_vars>>

----------------------------------------------------------------------------
(* pump_scanner/detector.rs, pump_scanner/tracker.rs *)

\* PumpState: Normal, Candidate {entry_price, max_price, total_volume}, Alerted.
\* detected_at and alerted_at hold the wall clock, which no decision of analyze reads.
Normal == [kind |-> "Normal", entry_price |-> None, max_price |-> None, total_volume |-> None]
Alerted == [kind |-> "Alerted", entry_price |-> None, max_price |-> None, total_volume |-> None]

\* tracker.rs:37-51
NewTracker ==
    [price_history |-> <<>>, volume_history |-> <<>>, pump_state |-> Normal, last_update |-> 0]

NoCandidate == [found |-> FALSE]

\* tracker.rs:61-65: points older than the cutoff leave from the front
RECURSIVE DropOlder(_, _)
DropOlder(history, cutoff) ==
    IF history # <<>> /\ Head(history).timestamp < cutoff
    THEN DropOlder(Tail(history), cutoff)
    ELSE history

\* tracker.rs:54-78, without the EMAs
update_from_candle(t, candle) ==
    LET point == [timestamp |-> candle.timestamp, price |-> candle.close, volume |-> candle.volume]
        pushed == Append(t.volume_history, candle.volume)
    IN [t EXCEPT
          !.price_history = DropOlder(Append(t.price_history, point), candle.timestamp - HistorySecs),
          !.last_update = candle.timestamp,
          !.volume_history = IF Len(pushed) > VolumeHistoryCap THEN Tail(pushed) ELSE pushed]

\* tracker.rs:98-122: [found, start_price, end_price, time_elapsed_mins]; change_pct is
\* (end_price - start_price) / start_price * 100 and is compared through ChangeAtLeast
price_change_in_window(t, window_secs) ==
    LET h == t.price_history
        window_start == t.last_update - window_secs
        inside == {i \in 1..Len(h) : h[i].timestamp >= window_start}
    IN IF Len(h) < 2 \/ inside = {} THEN [found |-> FALSE]
       ELSE LET i == CHOOSE x \in inside : \A y \in inside : x <= y
                end_point == h[Len(h)]
            IN [found |-> TRUE,
                start_price |-> h[i].price,
                end_price |-> end_point.price,
                time_elapsed_mins |-> (end_point.timestamp - h[i].timestamp) \div SecsPerMin]

\* change_pct >= pct, for a positive start price
ChangeAtLeast(pc, pct) == (pc.end_price - pc.start_price) * 100 >= pct * pc.start_price

\* tracker.rs:125-132, as the pair sum / count
average_volume(t) ==
    IF t.volume_history = <<>> THEN [num |-> 0, den |-> 1]
    ELSE [num |-> SumSeq(t.volume_history), den |-> Len(t.volume_history)]

\* tracker.rs:135-139
current_volume(t) ==
    LET h == t.price_history
        cutoff == t.last_update - CurrentVolumeSecs
        recent == {i \in 1..Len(h) : h[i].timestamp >= cutoff}
    IN SumSeq([i \in 1..Len(h) |-> IF i \in recent THEN h[i].volume ELSE 0])

\* tracker.rs:204-206
current_price(t) == IF t.price_history = <<>> THEN None ELSE t.price_history[Len(t.price_history)].price

\* detector.rs:107-114: current / average as a fraction, 0 when the average is not positive
pump_volume_ratio(t) ==
    LET avg == average_volume(t)
    IN IF avg.num > 0 THEN [num |-> current_volume(t) * avg.den, den |-> avg.num]
       ELSE [num |-> 0, den |-> 1]

\* the trigger without its volume check
is_pump_trigger_any_volume(pc, t) ==
    /\ ChangeAtLeast(pc, price_threshold_pct)
    /\ pc.time_elapsed_mins >= min_window_mins
    /\ pc.time_elapsed_mins <= max_window_mins

\* detector.rs:67-104
is_pump_trigger(pc, t) ==
    IF ~ChangeAtLeast(pc, price_threshold_pct) THEN FALSE
    ELSE IF pc.time_elapsed_mins < min_window_mins \/ pc.time_elapsed_mins > max_window_mins
         THEN FALSE
    ELSE IF ~RatioAtLeast(pump_volume_ratio(t), volume_multiplier, 1) THEN FALSE
    ELSE TRUE

\* detector.rs:18-64: [tracker, candidate]; the windows are tried from the
\* shortest up and the first that triggers is taken
analyze(t) ==
    IF t.pump_state.kind \in {"Candidate", "Alerted"} THEN [tracker |-> t, candidate |-> NoCandidate]
    ELSE IF Len(t.price_history) < MinPricePoints THEN [tracker |-> t, candidate |-> NoCandidate]
    ELSE LET triggering == {w \in min_window_mins..max_window_mins :
                               LET pc == price_change_in_window(t, w * SecsPerMin)
                               IN pc.found /\ is_pump_trigger(pc, t)}
         IN IF triggering = {} THEN [tracker |-> t, candidate |-> NoCandidate]
            ELSE LET w == CHOOSE x \in triggering : \A y \in triggering : x <= y
                     pc == price_change_in_window(t, w * SecsPerMin)
                 IN [tracker |-> [t EXCEPT !.pump_state =
                                     [kind |-> "Candidate",
                                      entry_price |-> pc.start_price,
                                      max_price |-> current_price(t),
                                      total_volume |-> current_volume(t)]],
                     candidate |-> [found |-> TRUE,
                                    price_change |-> pc,
                                    volume_ratio |-> pump_volume_ratio(t),
                                    current_price |-> current_price(t)]]

PumpIdle ==
    /\ tracker = NewTracker
    /\ candidate = NoCandidate

\* candles one after the other, 30 s, a minute or more than the kept history apart;
\* closes at, just below and at the threshold above the base price
Candles(t) ==
    {[timestamp |-> t.last_update + d, close |-> c, volume |-> v] :
        d \in {30, SecsPerMin, HistorySecs + SecsPerMin}, c \in {100, 104, 105}, v \in {1, 6}}

UpdateFromCandle ==
    \E candle \in Candles(tracker) :
        /\ Len(tracker.volume_history) < MaxCandles
        /\ tracker' = update_from_candle(tracker, candle)
        /\ UNCHANGED <<now, candidate, engine_vars, dispatch_vars, sub_vars, task_vars,
                       queue_vars, score_vars, stream_vars, conn_vars, trade_vars, scan_vars, api_vars>>

Analyze ==
    /\ tracker' = analyze(tracker).tracker
    /\ candidate' = analyze(tracker).candidate
    /\ UNCHANGED <<now, engine_vars, dispatch_vars, sub_vars, task_vars, queue_vars, score_vars, stream_vars, conn_vars, trade_vars, scan_vars, api_vars>>

\* tracker.rs:188-191
MarkAlerted ==
    /\ tracker.pump_state.kind = "Candidate"
    /\ tracker' = [tracker EXCEPT !.pump_state = Alerted]
    /\ UNCHANGED <<now, candidate, engine_vars, dispatch_vars, sub_vars, task_vars,
                   queue_vars, score_vars, stream_vars, conn_vars, trade_vars, scan_vars, api_vars>>

\* tracker.rs:183-185
ResetPumpState ==
    /\ tracker.pump_state.kind # "Normal"
    /\ tracker' = [tracker EXCEPT !.pump_state = Normal]
    /\ UNCHANGED <<now, candidate, engine_vars, dispatch_vars, sub_vars, task_vars,
                   queue_vars, score_vars, stream_vars, conn_vars, trade_vars, scan_vars, api_vars>>

----------------------------------------------------------------------------
(* main.rs: process_price_update, the pump scanner's handling of one price *)

NoClock == [last_alert_time |-> None, detected_at |-> None]

ScanIdle == pump_clock = NoClock

\* tracker.rs:194-201
is_in_cooldown(clock, at, cooldown_secs) ==
    IF clock.last_alert_time # None
    THEN at - clock.last_alert_time < cooldown_secs
    ELSE FALSE

\* tracker.rs:188-191: [tracker, clock]
mark_alerted(t, clock, at) ==
    [tracker |-> [t EXCEPT !.pump_state = Alerted],
     clock |-> [clock EXCEPT !.last_alert_time = at]]

\* detector.rs:117-147: a candidate whose price fell more than 3 % from its
\* maximum, or that is older than 30 minutes, goes back to Normal; the other
\* states are left alone
update_candidate(t, clock, at) ==
    IF t.pump_state.kind # "Candidate" \/ current_price(t) = None THEN t
    ELSE LET new_max == Max2(t.pump_state.max_price, current_price(t))
             faded == (new_max - current_price(t)) * 100 > FadeDropPct * new_max
             elapsed_mins == (at - clock.detected_at) \div SecsPerMin
         IN IF faded \/ elapsed_mins > CandidateMaxMins
            THEN [t EXCEPT !.pump_state = Normal]
            ELSE [t EXCEPT !.pump_state.max_price = new_max,
                           !.pump_state.total_volume = @ + current_volume(t)]

\* main.rs:366-411: the price moved by the threshold within the window
should_check_pump(t) ==
    LET pc == price_change_in_window(t, price_window_mins * SecsPerMin)
    IN pc.found /\ ChangeAtLeast(pc, price_threshold_pct)

\* main.rs:414-463, after the tracker took the price: [tracker, clock, candidate];
\* qualified is what the qualifier answered and sent whether Telegram took the alert
check_pump(t, clock, at, qualified, sent) ==
    IF ~should_check_pump(t) \/ is_in_cooldown(clock, at, alert_cooldown_secs)
    THEN [tracker |-> t, clock |-> clock, candidate |-> NoCandidate]
    ELSE LET r == analyze(t)
             detected == IF r.candidate.found
                         THEN [clock EXCEPT !.detected_at = at] ELSE clock
             m == IF r.candidate.found /\ qualified /\ sent
                  THEN mark_alerted(r.tracker, detected, at)
                  ELSE [tracker |-> r.tracker, clock |-> detected]
         IN [tracker |-> update_candidate(m.tracker, m.clock, at),
             clock |-> m.clock,
             candidate |-> r.candidate]

\* the prices the stream brings: a minute or five and a half minutes after the
\* one before, quiet or five per cent up on six times the volume
PriceTicks(t) ==
    {[timestamp |-> t.last_update + d, close |-> cv[1], volume |-> cv[2]] :
        d \in {SecsPerMin, alert_cooldown_secs + 30}, cv \in {<<100, 1>>, <<105, 6>>}}

\* process_price_update: the tracker takes the price, then the pump check
ProcessPriceUpdate ==
    \E tick \in PriceTicks(tracker), qualified \in BOOLEAN, sent \in BOOLEAN :
        LET r == check_pump(update_from_candle(tracker, tick), pump_clock,
                            tick.timestamp, qualified, sent)
        IN /\ Len(tracker.volume_history) < MaxScanUpdates
           /\ now' = tick.timestamp
           /\ tracker' = r.tracker
           /\ pump_clock' = r.clock
           /\ candidate' = r.candidate
           /\ UNCHANGED <<engine_vars, dispatch_vars, sub_vars, task_vars, queue_vars,
                          score_vars, stream_vars, conn_vars, trade_vars, api_vars>>

----------------------------------------------------------------------------
(* streams.rs: BinanceStreamManager, one connection loop *)

\* connect_ticker_stream and connect_trade_stream have the same loop, and
\* run_ticker_stream and run_trade_stream the same read loop; they differ in
\* the parser. The ping task a connection spawns only writes to the socket
\* and is not joined; unsubscribe aborting a trade task is part of the
\* subscription manager above.

\* a text frame: the JSON document it carries
Texts == {[shape |-> "trade", payload |-> 1], [shape |-> "trade", payload |-> 2],
          [shape |-> "tickers", payload |-> 1], [shape |-> "garbage", payload |-> 0]}
NoText == [shape |-> "", payload |-> 0]
NoMsg == [type |-> "", payload |-> 0]

\* what read.next() can give: a frame, a read error, the end of the stream
Frames ==
    {[kind |-> "text", text |-> t] : t \in Texts}
        \cup {[kind |-> k, text |-> NoText] :
                 k \in {"ping", "pong", "binary", "close", "error", "eof"}}
NoFrame == [kind |-> "none", text |-> NoText]
Connected == [kind |-> "connected", text |-> NoText]
ConnectError == [kind |-> "connect_error", text |-> NoText]

\* serde_json::from_str::<Vec<TickerData>>
parse_ticker_message(text) ==
    IF text.shape = "tickers"
    THEN [ok |-> TRUE, msg |-> [type |-> "Ticker", payload |-> text.payload]]
    ELSE [ok |-> FALSE, msg |-> NoMsg]

\* serde_json::from_str::<TradeData>
parse_trade_message(text) ==
    IF text.shape = "trade"
    THEN [ok |-> TRUE, msg |-> [type |-> "Trade", payload |-> text.payload]]
    ELSE [ok |-> FALSE, msg |-> NoMsg]

parse_message(kind, text) ==
    IF kind = "ticker" THEN parse_ticker_message(text) ELSE parse_trade_message(text)

\* one iteration of the read loop of run_*_stream on what read.next() gave:
\* the channel after it and whether the function goes on reading, returns
\* Ok(()) or returns the error
run_stream(kind, frame, tx, closed) ==
    CASE frame.kind = "error" -> [tx |-> tx, result |-> "err"]
      [] frame.kind \in {"eof", "close"} -> [tx |-> tx, result |-> "ok"]
      [] frame.kind = "text" ->
            LET parsed == parse_message(kind, frame.text)
            IN IF ~parsed.ok THEN [tx |-> tx, result |-> "continue"]
               ELSE IF closed THEN [tx |-> tx, result |-> "ok"]
               ELSE [tx |-> Append(tx, parsed.msg), result |-> "continue"]
      [] OTHER -> [tx |-> tx, result |-> "continue"]

\* tx.send(...).await completes: the frame needs no send, or the receiver is
\* gone, or the channel has room
SendCompletes(kind, frame, tx, closed) ==
    \/ frame.kind # "text"
    \/ ~parse_message(kind, frame.text).ok
    \/ closed
    \/ Len(tx) < StreamChannelSize

\* a connection loop that gives up on the first error
stream_outcome_break(result) == "break"

\* the match of connect_*_stream on what run_*_stream returned
stream_outcome(result) == IF result = "ok" THEN "break" ELSE "sleep"

\* lines 39 and 126: reconnect_delay after a failure
next_reconnect_delay(delay) == Min2(delay * 2, reconnect_max_delay_secs)

StreamIdle ==
    /\ stream_kind = "trade"
    /\ stream_pc = "connecting"
    /\ reconnect_delay = reconnect_base_delay_secs
    /\ sleep_secs = 0
    /\ last_frame = NoFrame
    /\ stream_tx = <<>>
    /\ rx_closed = FALSE

StreamUnchanged == UNCHANGED <<now, engine_vars, dispatch_vars, sub_vars, task_vars,
                               queue_vars, score_vars, pump_vars, conn_vars, trade_vars, scan_vars, api_vars>>

\* run_*_stream: connect_async succeeds or fails
Connect ==
    /\ stream_pc = "connecting"
    /\ \E ok \in BOOLEAN :
        IF ok
        THEN /\ stream_pc' = "reading"
             /\ last_frame' = Connected
             /\ UNCHANGED sleep_secs
        ELSE /\ last_frame' = ConnectError
             /\ IF stream_outcome("err") = "break"
                THEN stream_pc' = "ended" /\ UNCHANGED sleep_secs
                ELSE stream_pc' = "sleeping" /\ sleep_secs' = reconnect_delay
    /\ UNCHANGED <<stream_kind, reconnect_delay, stream_tx, rx_closed>>
    /\ StreamUnchanged

\* run_*_stream: one iteration of the read loop, and the match of
\* connect_*_stream when the function returns
ReadFrame ==
    /\ stream_pc = "reading"
    /\ \E frame \in Frames :
        LET r == run_stream(stream_kind, frame, stream_tx, rx_closed)
        IN /\ SendCompletes(stream_kind, frame, stream_tx, rx_closed)
           /\ last_frame' = frame
           /\ stream_tx' = r.tx
           /\ IF r.result = "continue"
              THEN stream_pc' = "reading" /\ UNCHANGED sleep_secs
              ELSE IF stream_outcome(r.result) = "break"
              THEN stream_pc' = "ended" /\ UNCHANGED sleep_secs
              ELSE stream_pc' = "sleeping" /\ sleep_secs' = reconnect_delay
    /\ UNCHANGED <<stream_kind, reconnect_delay, rx_closed>>
    /\ StreamUnchanged

\* the sleep is over: the delay is doubled and the loop connects again
WakeUp ==
    /\ stream_pc = "sleeping"
    /\ reconnect_delay' = next_reconnect_delay(reconnect_delay)
    /\ stream_pc' = "connecting"
    /\ UNCHANGED <<stream_kind, sleep_secs, last_frame, stream_tx, rx_closed>>
    /\ StreamUnchanged

\* the receiving task takes a message from the channel
ReceiveMessage ==
    /\ ~rx_closed
    /\ stream_tx # <<>>
    /\ stream_tx' = Tail(stream_tx)
    /\ UNCHANGED <<stream_kind, stream_pc, reconnect_delay, sleep_secs, last_frame, rx_closed>>
    /\ StreamUnchanged

\* the receiving task ends and drops the receiver
CloseReceiver ==
    /\ ~rx_closed
    /\ rx_closed' = TRUE
    /\ UNCHANGED <<stream_kind, stream_pc, reconnect_delay, sleep_secs, last_frame, stream_tx>>
    /\ StreamUnchanged

----------------------------------------------------------------------------
(* streams.rs: the connections of the trade-ingestion tasks *)

ConnIdle ==
    /\ pings = {}
    /\ next_conn = 0

ConnUnchanged == UNCHANGED <<now, engine_vars, dispatch_vars, sub_vars, task_vars,
                             queue_vars, score_vars, pump_vars, stream_vars, trade_vars, scan_vars, api_vars>>

\* run_trade_stream, lines 135-151, in a running trade task: connect_async
\* succeeds and the ping task is spawned, detached, owning the write half
TaskConnects ==
    \E task \in tasks :
        /\ next_conn < MaxConns
        /\ next_conn' = next_conn + 1
        /\ pings' = pings \cup {[conn |-> next_conn + 1, task |-> task.id,
                                 symbol |-> task.symbol]}
        /\ ConnUnchanged

\* the ping task, lines 146-148: write.send fails (the peer closed the
\* connection) and the task breaks out of its loop
PingEnds ==
    \E ping \in pings :
        /\ pings' = pings \ {ping}
        /\ UNCHANGED next_conn
        /\ ConnUnchanged

----------------------------------------------------------------------------
(* crates/scanner_api/src/state.rs: AppState *)

ApiClients == {"c1", "c2"}
ApiPairs == {"ETHUSDT", "XTZUSDT"}
ApiComments == {"watch"}

\* PairSnapshot::new, the fields the four operations touch
NewPairSnapshot(pair) == [pair |-> pair, is_favorite |-> FALSE, comments |-> <<>>]

\* serde_json::to_string_pretty of the map: the entries one after the other,
\* in any of the orders the HashMap can iterate in
to_json(map) ==
    {text \in [1..Cardinality(DOMAIN map) -> {map[k] : k \in DOMAIN map}] :
        \A i, j \in 1..Len(text) : i # j => text[i].pair # text[j].pair}

\* serde_json::from_str into a HashMap
from_json(text) ==
    [k \in {text[i].pair : i \in 1..Len(text)} |->
        LET i == CHOOSE x \in 1..Len(text) : text[x].pair = k IN text[i]]

NoFile == [exists |-> FALSE, text |-> <<>>]

\* lines 21-38: the map AppState::load builds from the state file
load(file) == IF ~file.exists THEN <<>> ELSE from_json(file.text)

\* entry(pair).or_insert_with(PairSnapshot::new)
or_insert(map, pair) ==
    IF pair \in DOMAIN map THEN map
    ELSE [k \in DOMAIN map \cup {pair} |-> IF k = pair THEN NewPairSnapshot(pair) ELSE map[k]]

\* lines 81-94, under the write lock: [pairs, persist]
favorite_pair(map, pair) ==
    [pairs |-> [or_insert(map, pair) EXCEPT ![pair].is_favorite = TRUE], persist |-> TRUE]

\* lines 96-111
unfavorite_pair(map, pair) ==
    IF pair \notin DOMAIN map THEN [pairs |-> map, persist |-> FALSE]
    ELSE [pairs |-> [map EXCEPT ![pair].is_favorite = FALSE], persist |-> TRUE]

\* lines 113-126
add_comment(map, pair, comment) ==
    [pairs |-> [or_insert(map, pair) EXCEPT ![pair].comments = Append(@, comment)],
     persist |-> TRUE]

\* lines 128-147: the first comment equal to the one given is removed
remove_comment(map, pair, comment) ==
    IF pair \notin DOMAIN map THEN [pairs |-> map, persist |-> FALSE]
    ELSE LET cs == map[pair].comments
             found == {i \in 1..Len(cs) : cs[i] = comment}
         IN IF found = {} THEN [pairs |-> map, persist |-> FALSE]
            ELSE LET index == CHOOSE i \in found : \A j \in found : i <= j
                 IN [pairs |-> [map EXCEPT ![pair].comments =
                                   SubSeq(cs, 1, index - 1) \o SubSeq(cs, index + 1, Len(cs))],
                     persist |-> TRUE]

NoRequest == [pc |-> "idle", payload |-> <<>>, issued |-> 0]

ApiIdle ==
    /\ pairs = <<>>
    /\ storage = NoFile
    /\ requests = [c \in ApiClients |-> NoRequest]

ApiUnchanged == UNCHANGED <<now, engine_vars, dispatch_vars, sub_vars, task_vars, queue_vars,
                            score_vars, pump_vars, stream_vars, conn_vars, trade_vars,
                            scan_vars>>

\* the first half of an operation: the mutation under the write lock; the
\* operation then goes on to persist, or returns
Mutated(c, r) ==
    /\ requests[c].pc = "idle"
    /\ requests[c].issued < MaxRequests
    /\ pairs' = r.pairs
    /\ requests' = [requests EXCEPT ![c].pc = IF r.persist THEN "persist" ELSE "idle",
                                    ![c].issued = @ + 1]
    /\ UNCHANGED storage
    /\ ApiUnchanged

FavoritePair ==
    \E c \in DOMAIN requests, pair \in ApiPairs : Mutated(c, favorite_pair(pairs, pair))

UnfavoritePair ==
    \E c \in DOMAIN requests, pair \in ApiPairs : Mutated(c, unfavorite_pair(pairs, pair))

AddComment ==
    \E c \in DOMAIN requests, pair \in ApiPairs, comment \in ApiComments :
        /\ pair \in DOMAIN pairs => Len(pairs[pair].comments) < MaxComments
        /\ Mutated(c, add_comment(pairs, pair, comment))

RemoveComment ==
    \E c \in DOMAIN requests, pair \in ApiPairs, comment \in ApiComments :
        Mutated(c, remove_comment(pairs, pair, comment))

\* persist, lines 41-44: the map is serialized under the read lock
PersistSerialize ==
    \E c \in DOMAIN requests, payload \in to_json(pairs) :
        /\ requests[c].pc = "persist"
        /\ requests' = [requests EXCEPT ![c].pc = "write", ![c].payload = payload]
        /\ UNCHANGED <<pairs, storage>>
        /\ ApiUnchanged

\* persist, lines 46-50: fs::write replaces the file with the payload, and
\* the operation returns
PersistWrite ==
    \E c \in DOMAIN requests :
        /\ requests[c].pc = "write"
        /\ storage' = [exists |-> TRUE, text |-> requests[c].payload]
        /\ requests' = [requests EXCEPT ![c].pc = "idle", ![c].payload = <<>>]
        /\ UNCHANGED pairs
        /\ ApiUnchanged

AuxIdle == QueueIdle /\ ScoreIdle /\ PumpIdle /\ StreamIdle /\ ConnIdle /\ TradeIdle /\ ScanIdle /\ ApiIdle

----------------------------------------------------------------------------
(* Specifications *)

\* the signal engine task
Init == now = 0 /\ EngineInit /\ DispatchIdle /\ SubIdle /\ TaskIdle /\ AuxIdle

Next == ProcessTicker \/ ProcessTrade \/ RescoreSymbols \/ Tick

Spec == Init /\ [][Next]_vars

EngineIdle ==
    /\ feed = CompetingFeed
    /\ symbols = <<>>
    /\ alerts = <<>>
    /\ tier1_list = <<>>

\* the alert dispatcher task fed by the engine
DispatchInit == now = 0 /\ EngineIdle /\ DispatchIdle /\ SubIdle /\ TaskIdle /\ AuxIdle

DispatchNext == EmitAlert \/ DispatchAlert \/ DispatchTick

DispatchSpec == DispatchInit /\ [][DispatchNext]_vars

\* the subscription manager driven by one task
SubInit == now = 0 /\ EngineIdle /\ DispatchIdle /\ SubIdle /\ TaskIdle /\ AuxIdle

SubNext == StartUpdate \/ UpdateUnsubscribe \/ UpdateSubscribe \/ FinishUpdate \/ TaskEnds

SubSpec == SubInit /\ [][SubNext]_vars

\* the subscription manager shared by several tasks
SubConcNext == SubNext \/ CallSubscribe \/ CallUnsubscribe

SubConcSpec == SubInit /\ [][SubConcNext]_vars

\* the subscription manager, the trade tasks it spawns and their connections
ConnNext == SubNext \/ TaskConnects \/ PingEnds

ConnSpec == SubInit /\ [][ConnNext]_vars

\* the engine task between its channels
TaskInit ==
    /\ now = 0
    /\ feed = TaskFeed
    /\ symbols = <<>>
    /\ alerts = <<>>
    /\ tier1_list = <<>>
    /\ DispatchIdle /\ SubIdle /\ TaskIdle /\ AuxIdle

EngineNext ==
    RecvTicker \/ ApplyTicker \/ EndTicker \/ RecvTrade \/ SendAlert \/ RescoreTick \/ SendTier1

TaskNext == EngineNext \/ AlertRecv \/ Tier1Recv \/ TaskTick

TaskSpec == TaskInit /\ [][TaskNext]_vars

\* the engine task with room for two Tier 1 lists in flight
RescoreInit ==
    /\ now = 0
    /\ feed = RescoreFeed
    /\ symbols = <<>>
    /\ alerts = <<>>
    /\ tier1_list = <<>>
    /\ DispatchIdle /\ SubIdle /\ TaskIdle /\ AuxIdle

RescoreSpec == RescoreInit /\ [][TaskNext]_vars

\* the engine task fed with tickers that fail the hard filters
FilterInit ==
    /\ now = 0
    /\ feed = FilterFeed
    /\ symbols = <<>>
    /\ alerts = <<>>
    /\ tier1_list = <<>>
    /\ DispatchIdle /\ SubIdle /\ TaskIdle /\ AuxIdle

FilterSpec == FilterInit /\ [][TaskNext]_vars

\* the signal engine under a zero breakout threshold, with trades that keep
\* arriving and a clock that keeps running
BreakoutInit ==
    /\ now = 0
    /\ feed = BreakoutFeed
    /\ symbols = <<>>
    /\ alerts = <<>>
    /\ tier1_list = <<>>
    /\ DispatchIdle /\ SubIdle /\ TaskIdle /\ AuxIdle

\* trades keep being processed
TradesKeepArriving == []<><<ProcessTrade>>_vars

BreakoutSpec == BreakoutInit /\ [][Next]_vars /\ WF_vars(Tick) /\ TradesKeepArriving

\* the same engine under a positive breakout threshold
PositiveInit ==
    /\ now = 0
    /\ feed = PositiveFeed
    /\ symbols = <<>>
    /\ alerts = <<>>
    /\ tier1_list = <<>>
    /\ DispatchIdle /\ SubIdle /\ TaskIdle /\ AuxIdle

PositiveSpec == PositiveInit /\ [][Next]_vars /\ WF_vars(Tick) /\ TradesKeepArriving

\* the engine where every MarketState is reachable and the symbol can be demoted
MachineInit ==
    /\ now = 0
    /\ feed = MachineFeed
    /\ symbols = <<>>
    /\ alerts = <<>>
    /\ tier1_list = <<>>
    /\ DispatchIdle /\ SubIdle /\ TaskIdle /\ AuxIdle

MachineSpec == MachineInit /\ [][Next]_vars

\* the engine fed a ticker whose 24h change is NaN
NanInit ==
    /\ now = 0
    /\ feed = NanFeed
    /\ symbols = <<>>
    /\ alerts = <<>>
    /\ tier1_list = <<>>
    /\ DispatchIdle /\ SubIdle /\ TaskIdle /\ AuxIdle

NanSpec == NanInit /\ [][Next]_vars

\* the signal engine, the trade each process_trade was handed on record
CvdInit ==
    /\ now = 0
    /\ feed = CvdFeed
    /\ symbols = <<>>
    /\ alerts = <<>>
    /\ tier1_list = <<>>
    /\ DispatchIdle /\ SubIdle /\ TaskIdle /\ AuxIdle

CvdNext == ProcessTicker \/ HandleTrade \/ RescoreSymbols \/ Tick

CvdSpec == CvdInit /\ [][CvdNext]_vars

\* the alert priority queue on its own
QueueNext == Push \/ Pop

QueueInit == now = 0 /\ EngineIdle /\ DispatchIdle /\ SubIdle /\ TaskIdle /\ AuxIdle

QueueSpec == QueueInit /\ [][QueueNext]_vars

\* the Scorer applied to one snapshot after another
ScoreInit ==
    /\ now = 0
    /\ EngineIdle /\ DispatchIdle /\ SubIdle /\ TaskIdle /\ QueueIdle /\ PumpIdle /\ StreamIdle /\ ConnIdle /\ TradeIdle /\ ScanIdle /\ ApiIdle
    /\ score_in \in Snapshots
    /\ score_out = 0
    /\ tier_out = "Ignored"
    /\ score_prev = [score |-> 0, tier |-> "Ignored"]
    /\ score_pc = "calculate"

ScoreNext == CalculateScore \/ AssignTier \/ NextSnapshot

ScoreSpec == ScoreInit /\ [][ScoreNext]_vars

\* the pump detector over one tracker
PumpNext == UpdateFromCandle \/ Analyze \/ MarkAlerted \/ ResetPumpState

PumpInit == now = 0 /\ EngineIdle /\ DispatchIdle /\ SubIdle /\ TaskIdle /\ AuxIdle

PumpSpec == PumpInit /\ [][PumpNext]_vars

\* the scanner API serving one client, or two at the same time
ApiInit ==
    /\ now = 0
    /\ EngineIdle /\ DispatchIdle /\ SubIdle /\ TaskIdle
    /\ QueueIdle /\ ScoreIdle /\ PumpIdle /\ StreamIdle /\ ConnIdle /\ TradeIdle /\ ScanIdle
    /\ pairs = <<>>
    /\ storage = NoFile
    /\ requests \in {[c \in clients |-> NoRequest] : clients \in {{"c1"}, ApiClients}}

ApiNext ==
    FavoritePair \/ UnfavoritePair \/ AddComment \/ RemoveComment
        \/ PersistSerialize \/ PersistWrite

ApiSpec == ApiInit /\ [][ApiNext]_vars

\* the pump scanner over one tracker
ScannerInit == now = 0 /\ EngineIdle /\ DispatchIdle /\ SubIdle /\ TaskIdle /\ AuxIdle

ScannerSpec == ScannerInit /\ [][ProcessPriceUpdate]_vars

\* one stream connection loop and the task at the other end of its channel
StreamNext == Connect \/ ReadFrame \/ WakeUp \/ ReceiveMessage \/ CloseReceiver

StreamInit ==
    /\ now = 0
    /\ EngineIdle /\ DispatchIdle /\ SubIdle /\ TaskIdle /\ QueueIdle /\ ScoreIdle /\ PumpIdle
    /\ ConnIdle /\ TradeIdle /\ ScanIdle /\ ApiIdle
    /\ stream_kind \in {"ticker", "trade"}
    /\ stream_pc = "connecting"
    /\ reconnect_delay = reconnect_base_delay_secs
    /\ sleep_secs = 0
    /\ last_frame = NoFrame
    /\ stream_tx = <<>>
    /\ rx_closed = FALSE

StreamSpec == StreamInit /\ [][StreamNext]_vars

\* tokio wakes a sleeping task when its timer fires
StreamFairSpec == StreamSpec /\ WF_vars(WakeUp)

----------------------------------------------------------------------------
(* Properties of the engine *)

Tier1Data(s) == [cvd |-> s.cvd, cvd_history |-> s.cvd_history, state |-> s.state]
NoTier1Data == [cvd |-> 0, cvd_history |-> <<>>, state |-> "Idle"]

AccumulationSet(s) ==
    s.accumulation_start # None /\ s.accumulation_high # None /\ s.accumulation_low # None
DistributionSet(s) ==
    s.distribution_start # None /\ s.distribution_high # None /\ s.distribution_low # None

MomentumAlerts == {"PumpDetected", "DumpDetected"}
RangeAlerts == AlertTypes \ MomentumAlerts

CountOf(seq, types) == Cardinality({i \in 1..Len(seq) : seq[i].alert_type \in types})

\* C1: the number of snapshots whose tier is Tier1 never exceeds max_tier1_symbols.
C1_Tier1WithinMax == Cardinality(Tier1Of(symbols)) <= max_tier1_symbols

\* C2: a rescore leaves every snapshot that was Tier1 before it and is not in
\* the returned list with cvd = 0, an empty cvd_history and state Idle.
C2_UnselectedTier1Cleared ==
    [][RescoreSymbols =>
        \A k \in DOMAIN symbols \cap DOMAIN symbols' :
            (symbols[k].tier = "Tier1" /\ k \notin Range(tier1_list'))
                => Tier1Data(symbols'[k]) = NoTier1Data]_vars

\* C3: a snapshot whose tier is Tier2 or Ignored has cvd = 0, an empty
\* cvd_history and state Idle.
C3_NoTier1DataBelowTier1 ==
    \A k \in DOMAIN symbols :
        symbols[k].tier \in {"Tier2", "Ignored"} => Tier1Data(symbols[k]) = NoTier1Data

\* C3 witness: a snapshot that went through a range state as Tier1 (its
\* captured range start is still recorded) and has since been downgraded.
C3_Witness ==
    \E k \in DOMAIN symbols :
        /\ symbols[k].tier \in {"Tier2", "Ignored"}
        /\ symbols[k].accumulation_start # None \/ symbols[k].distribution_start # None
        /\ symbols[k].price_window # <<>>
        /\ Tier1Data(symbols[k]) = NoTier1Data

\* C4: the accumulation fields are all set exactly when the state is
\* Accumulation and the distribution fields exactly when it is Distribution.
C4_RangeFieldsIffState ==
    \A k \in DOMAIN symbols :
        /\ AccumulationSet(symbols[k]) <=> symbols[k].state = "Accumulation"
        /\ DistributionSet(symbols[k]) <=> symbols[k].state = "Distribution"

\* C5: one Detector call returns at most two alerts, at most one of them a
\* momentum alert and at most one a range alert.
C5_AtMostOneAlertPerClass ==
    /\ Len(alerts) <= 2
    /\ CountOf(alerts, MomentumAlerts) <= 1
    /\ CountOf(alerts, RangeAlerts) <= 1

\* C5 witness: a call that returned a momentum alert and a range alert.
C5_Witness ==
    /\ Len(alerts) = 2
    /\ CountOf(alerts, MomentumAlerts) = 1
    /\ CountOf(alerts, RangeAlerts) = 1

----------------------------------------------------------------------------
(* Properties of the dispatcher *)

SameKey(i, j) == AlertKey(delivered[i].alert) = AlertKey(delivered[j].alert)
SentAt(i) == delivered[i].alert.timestamp

\* C6: no two delivered alerts of the same (symbol, alert type) have timestamps
\* less than alert_cooldown_secs apart, and the cooldown check suppresses an
\* alert only when an alert of the same key was recorded less than
\* alert_cooldown_secs before it (an elapsed time equal to the cooldown passes).
C6_CooldownPerKey ==
    /\ \A i, j \in 1..Len(delivered) :
        (i < j /\ SameKey(i, j)) => Abs(SentAt(j) - SentAt(i)) >= alert_cooldown_secs
    /\ handled.outcome = "cooldown" =>
        /\ handled.prev # None
        /\ handled.alert.timestamp - handled.prev < alert_cooldown_secs

C6_Witness ==
    \E i, j, k \in 1..Len(delivered) :
        /\ i < k /\ k < j
        /\ SameKey(i, j)
        /\ SentAt(j) - SentAt(i) = alert_cooldown_secs
        /\ ~SameKey(i, k)
        /\ SentAt(k) - SentAt(i) < alert_cooldown_secs

DeliveredWithin(i) ==
    {j \in 1..Len(delivered) :
        delivered[j].at <= delivered[i].at /\ delivered[j].at > delivered[i].at - RateWindowSecs}

\* C7: in every interval of 60 seconds at most max_alerts_per_minute alerts
\* are delivered.
C7_AtMostMaxPerMinute ==
    \A i \in 1..Len(delivered) : Cardinality(DeliveredWithin(i)) <= max_alerts_per_minute

\* new is old without some entries, all of them older than 60 seconds at time t
OnlyStaleDropped(old, new, t) ==
    \E keep \in SUBSET Range(old) :
        LET Kept(ts) == ts \in keep
        IN /\ new = SelectSeq(old, Kept)
           /\ \A ts \in Range(old) \ keep : ts + RateWindowSecs < t

Recorded ==
    LET alert == Head(alert_rx)
    IN /\ AlertKey(alert) \in DOMAIN last_alert_times'
       /\ last_alert_times'[AlertKey(alert)] = alert.timestamp
       /\ \A k \in DOMAIN last_alert_times \ {AlertKey(alert)} :
            k \in DOMAIN last_alert_times' /\ last_alert_times'[k] = last_alert_times[k]
       /\ alerts_this_minute' # <<>>
       /\ alerts_this_minute'[Len(alerts_this_minute')] = alert.timestamp
       /\ OnlyStaleDropped(alerts_this_minute,
                           SubSeq(alerts_this_minute', 1, Len(alerts_this_minute') - 1), now)

\* C8 as stated: an alert that is suppressed or whose delivery fails leaves the
\* cooldown map and the rate-limit window unchanged.
C8_TrackersUntouchedUnlessSent ==
    [][DispatchAlert =>
        /\ alert_rx' = Tail(alert_rx)
        /\ IF handled'.outcome = "sent"
           THEN Recorded
           ELSE UNCHANGED <<last_alert_times, alerts_this_minute>>]_vars

\* C8 amended: only a successful delivery records an alert in the cooldown map
\* and the rate-limit window; an alert that is suppressed or whose delivery
\* fails leaves the cooldown map unchanged and adds nothing to the rate-limit
\* window, from which the rate-limit check may only have dropped entries older
\* than 60 seconds; in every case the alert is taken off the channel and the
\* task goes on with the next one.
C8_OnlySentIsRecorded ==
    [][DispatchAlert =>
        /\ alert_rx' = Tail(alert_rx)
        /\ IF handled'.outcome = "sent"
           THEN Recorded
           ELSE /\ last_alert_times' = last_alert_times
                /\ OnlyStaleDropped(alerts_this_minute, alerts_this_minute', now)]_vars

C8_Witness ==
    /\ handled.outcome = "failed"
    /\ AlertKey(handled.alert) \notin DOMAIN last_alert_times
    /\ handled.alert.timestamp \notin Range(alerts_this_minute)
    /\ alert_rx # <<>>

----------------------------------------------------------------------------
(* Properties of the subscription manager *)

TasksOf(symbol) == {task \in tasks : task.symbol = symbol}

\* C9: when update_subscriptions(L) has returned, the symbols of
\* active_streams are exactly those of L; the task of every symbol that was
\* active and is not in L is no longer running, every symbol of L that was not
\* active has a handle spawned by this call, and every symbol of L that was
\* active keeps the handle it had.
C9_ActiveEqualsTarget ==
    (upd.pc = "idle" /\ upd.completed) =>
        /\ DOMAIN active_streams = upd.target
        /\ \A s \in DOMAIN upd.before \ upd.target :
            \A task \in tasks : task.id # upd.before[s]
        /\ \A s \in upd.target \ DOMAIN upd.before :
            active_streams[s] > upd.spawned /\ active_streams[s] <= next_handle
        /\ \A s \in upd.target \cap DOMAIN upd.before :
            active_streams[s] = upd.before[s]
        /\ \A task \in tasks : task.symbol \in upd.target

C9_Witness ==
    /\ upd.pc = "idle" /\ upd.completed
    /\ DOMAIN upd.before \ upd.target # {}
    /\ upd.target \ DOMAIN upd.before # {}
    /\ \E s \in upd.target \cap DOMAIN upd.before : TasksOf(s) # {}
    /\ \E s \in upd.target \ DOMAIN upd.before : TasksOf(s) # {}

\* C10: subscribe on an active symbol and unsubscribe on an inactive symbol
\* change neither the map nor the tasks, and no symbol ever has more than one
\* running trade-ingestion task, whatever the order of the calls.
C10_AtMostOneTaskPerSymbol ==
    /\ \A s \in SubSymbols : Cardinality(TasksOf(s)) <= 1
    /\ (last_call.op = "subscribe" /\ last_call.was_active) => ~last_call.changed
    /\ (last_call.op = "unsubscribe" /\ ~last_call.was_active) => ~last_call.changed

C10_Witness ==
    /\ upd.pc = "running"
    /\ last_call.op = "subscribe"
    /\ last_call.was_active
    /\ last_call.symbol \in upd.target \ DOMAIN upd.before
    /\ Cardinality(TasksOf(last_call.symbol)) = 1

----------------------------------------------------------------------------
(* Properties of the engine task *)

\* C11: the engine task is never stalled by a slow consumer: whatever the
\* alerts channel and the Tier 1 updates channel hold, the task has a step it
\* can take on its own (a full channel makes it drop the message and go on).
C11_EngineNeverStalled == ENABLED EngineNext

ProcessedTickers ==
    SubSeq(task_begin.batch, 1, Len(task_begin.batch) - Len(task_batch))

MessageApplied ==
    /\ engine_pc = "process_ticker" =>
        symbols = process_ticker(task_begin.tbl, ProcessedTickers, task_begin.at)
    /\ engine_pc = "send_alert" =>
        symbols = process_trade(task_begin.tbl, task_begin.batch[1], task_begin.at).tbl
    /\ engine_pc = "send_tier1" =>
        symbols = apply_tiers(score_all(retain_fresh(task_begin.tbl, task_begin.at)), tier1_list)

\* C12: rescore_symbols starts only when the task is back at select!, never
\* inside process_ticker or between process_trade and the sending of its
\* alerts; and while a message is being handled the table is exactly what the
\* handler has made of the table it found, so no other operation has touched it.
C12_RescoreBetweenMessages ==
    [][/\ RescoreTick => (engine_pc = "select" /\ task_batch = <<>>)
       /\ MessageApplied']_vars

C12_Witness ==
    /\ engine_pc = "process_ticker"
    /\ Len(task_begin.batch) = 2
    /\ Len(task_batch) = 1
    /\ symbols # task_begin.tbl
    /\ \E k \in DOMAIN symbols : symbols[k].tier = "Tier1"

----------------------------------------------------------------------------
(* Properties of the breakout states *)

BreakoutStates == {"BreakoutLong", "BreakdownShort"}

InBreakout(k) ==
    /\ k \in DOMAIN symbols
    /\ symbols[k].tier = "Tier1"
    /\ symbols[k].state \in BreakoutStates

BreakoutStart(k) ==
    IF symbols[k].state = "BreakoutLong" THEN symbols[k].accumulation_start
    ELSE symbols[k].distribution_start

\* the clock of the scenario runs past the state timeout of k
TimeoutAhead(k) == \E t \in feed.times : t > BreakoutStart(k) + StateTimeoutSecs

NoLongerTier1(k) == k \notin DOMAIN symbols \/ symbols[k].tier # "Tier1"

\* C13 as stated: a snapshot in BreakoutLong or BreakdownShort that stays
\* Tier 1 and keeps receiving trades is eventually in Idle.
C13_BreakoutEventuallyIdle ==
    \A k \in {"AUSDT"} :
        (InBreakout(k) /\ TimeoutAhead(k)) ~> (NoLongerTier1(k) \/ symbols[k].state = "Idle")

\* C13 amended: a snapshot in BreakoutLong or BreakdownShort that stays Tier 1
\* and keeps receiving trades eventually leaves the breakout state: the
\* Detector call that finds the timeout passed resets it to Idle, unless that
\* call or an earlier one detects a pump or dump, which takes the snapshot to
\* another state than Idle.
C13_BreakoutEventuallyLeft ==
    \A k \in {"AUSDT"} :
        (InBreakout(k) /\ TimeoutAhead(k)) ~>
            (NoLongerTier1(k) \/ symbols[k].state \notin BreakoutStates)

C13_Witness ==
    \E k \in DOMAIN symbols :
        /\ InBreakout(k)
        /\ now > BreakoutStart(k) + StateTimeoutSecs
        /\ symbols[k].cvd_history # <<>>

----------------------------------------------------------------------------
(* Properties of the windows and of rescoring *)

IsSuffix(a, b) == Len(a) <= Len(b) /\ a = SubSeq(b, Len(b) - Len(a) + 1, Len(b))

\* new holds the newest entries of old followed by the entries pushed since,
\* and entries of old are missing only if new is full
OldestEvicted(old, new, cap) ==
    /\ Len(new) <= cap
    /\ \E n \in 0..Len(new) :
        /\ IsSuffix(SubSeq(new, 1, Len(new) - n), old)
        /\ (Len(new) - n < Len(old)) => Len(new) = cap

WindowsBefore(k) ==
    IF k \in DOMAIN symbols THEN symbols[k] ELSE NewSymbolData(k, now)

\* C14: after every ticker applied by ProcessTicker and after every
\* ProcessTrade each price window and volume window holds at most
\* price_window_size entries and each CVD history at most cvd_history_size;
\* what a window has lost are its oldest entries, and the entry just pushed is
\* its last one.
C14_WindowsBounded ==
    [][(ApplyTicker \/ RecvTrade) =>
        \A k \in DOMAIN symbols' :
            LET old == WindowsBefore(k)
                new == symbols'[k]
            IN /\ OldestEvicted(old.price_window, new.price_window, price_window_size)
               /\ OldestEvicted(old.volume_window, new.volume_window, price_window_size)
               /\ OldestEvicted(old.cvd_history, new.cvd_history, cvd_history_size)
               /\ (ApplyTicker /\ new # old) =>
                    /\ new.price_window[Len(new.price_window)] = <<now, new.price>>
                    /\ new.volume_window[Len(new.volume_window)] = <<now, new.quote_volume_24h>>
               /\ (RecvTrade /\ new.cvd # old.cvd) =>
                    new.cvd_history[Len(new.cvd_history)] = <<now, new.cvd>>]_vars

C14_Witness ==
    \E k \in DOMAIN symbols :
        /\ Len(symbols[k].price_window) = price_window_size
        /\ Len(symbols[k].volume_window) = price_window_size
        /\ symbols[k].price_window[1][1] < symbols[k].price_window[2][1]
        /\ Len(symbols[k].cvd_history) = cvd_history_size
        /\ symbols[k].cvd_history[1][2] = 0

IsStale(s) == saturating_sub(now, s.last_update_time) > stale_data_threshold_secs

\* C15: right after RescoreSymbols no snapshot of the table is stale, the
\* snapshots that have gone are exactly the stale ones, and the returned
\* Tier 1 list names only symbols of the table.
C15_NoStaleAfterRescore ==
    [][RescoreSymbols =>
        /\ \A k \in DOMAIN symbols' : ~IsStale(symbols'[k])
        /\ DOMAIN symbols' = {k \in DOMAIN symbols : ~IsStale(symbols[k])}
        /\ Range(tier1_list') \subseteq DOMAIN symbols']_vars

C15_Witness ==
    /\ now > stale_data_threshold_secs
    /\ DOMAIN symbols # {}
    /\ feed.syms \ DOMAIN symbols # {}
    /\ \A k \in DOMAIN symbols : ~IsStale(symbols[k]) /\ symbols[k].score > 0
    /\ tier1_list # <<>>
    /\ Range(tier1_list) \subseteq DOMAIN symbols


----------------------------------------------------------------------------
\* the three priority levels the alert types fall into, highest first
PriorityLevel(alert_type) ==
    IF alert_type \in {"LongSetupConfirmed", "ShortSetupConfirmed"} THEN 3
    ELSE IF alert_type \in {"AccumulationDetected", "DistributionDetected"} THEN 2
    ELSE 1

\* q without its element at index i
RemoveAt(q, i) == SubSeq(q, 1, i - 1) \o SubSeq(q, i + 1, Len(q))

\* C16: every pop of a non-empty queue returns and removes one queued alert
\* whose priority level (setup confirmations above accumulation/distribution
\* above pump/dump) is the highest of all queued alerts, whatever the order
\* they were pushed in, and every pop of an empty queue returns nothing; a pop
\* returns nothing only then.
C16_PopReturnsMaximalPriority ==
    [][Pop =>
        /\ (popped' = NoAlert) <=> (pq = <<>>)
        /\ pq # <<>> =>
            /\ \E i \in 1..Len(pq) : popped' = pq[i] /\ pq' = RemoveAt(pq, i)
            /\ \A a \in Range(pq) :
                   PriorityLevel(popped'.alert_type) >= PriorityLevel(a.alert_type)]_vars

\* a setup confirmation pushed last onto a queue of lower alerts has been popped first
C16_Witness ==
    /\ popped # NoAlert
    /\ popped.alert_type = "LongSetupConfirmed"
    /\ Len(pq) = MaxQueue - 1
    /\ pq[1].alert_type = "AccumulationDetected"
    /\ pq[2].alert_type = "PumpDetected"


AtLeast(x, y) == x # NaN /\ x >= y

TierRank(t) == IF t = "Tier1" THEN 2 ELSE IF t = "Tier2" THEN 1 ELSE 0

\* C18: the tier assigned to a score is Tier1 exactly when the score is at
\* least tier1_threshold, Tier2 exactly when it is at least tier2_threshold
\* and below tier1_threshold, and Ignored in every other case, a score equal to
\* a threshold counting as reaching it; of two scores assigned one after the
\* other, the higher never gets the lower tier.
C18_TierByThresholds ==
    score_pc = "done" =>
        /\ tier_out = "Tier1" <=> AtLeast(score_out, tier1_threshold)
        /\ tier_out = "Tier2" <=>
               (AtLeast(score_out, tier2_threshold) /\ ~AtLeast(score_out, tier1_threshold))
        /\ tier_out = "Ignored" <=> ~AtLeast(score_out, tier2_threshold)
        /\ (score_out # NaN /\ score_prev.score # NaN) =>
               /\ score_prev.score <= score_out => TierRank(score_prev.tier) <= TierRank(tier_out)
               /\ score_prev.score >= score_out => TierRank(score_prev.tier) >= TierRank(tier_out)

\* a score equal to tier2_threshold has been assigned Tier2 right after a score
\* equal to tier1_threshold was assigned Tier1
C18_Witness ==
    /\ score_pc = "done"
    /\ score_out = tier2_threshold /\ tier_out = "Tier2"
    /\ score_prev.score = tier1_threshold /\ score_prev.tier = "Tier1"

\* C19: whatever the snapshot, the score calculate_score returned is a number
\* from 0 to 1 (0 to 1000 per mille).
C19_ScoreInUnitInterval ==
    score_pc # "calculate" => (score_out # NaN /\ score_out >= 0 /\ score_out <= 1000)


\* C20: a trade whose Detector call returns a PumpDetected or DumpDetected
\* alert returns no accumulation, distribution, breakout or breakdown alert
\* with it, and leaves the snapshot in state PumpDetected or DumpDetected
\* respectively.
C20_MomentumAlertSkipsRangeCheck ==
    [][ProcessTrade =>
        \A i \in 1..Len(alerts') :
            alerts'[i].alert_type \in MomentumAlerts =>
                /\ CountOf(alerts', RangeAlerts) = 0
                /\ symbols'[alerts'[i].symbol].state = alerts'[i].alert_type]_vars


----------------------------------------------------------------------------
(* Properties of the range states *)

\* the step is process_trade called with this trade
TradeCall(trade) ==
    /\ ProcessTrade
    /\ symbols' = process_trade(symbols, trade, now).tbl
    /\ alerts' = process_trade(symbols, trade, now).alerts

\* the trade reaches the Detector
ReachesDetector(trade) ==
    /\ trade.symbol \in DOMAIN symbols
    /\ symbols[trade.symbol].tier = "Tier1"

HasAlert(seq, type) == \E i \in 1..Len(seq) : seq[i].alert_type = type

\* the three breakout conditions on a snapshot, with the captured high
\* extended by the current price
BreakoutConditions(s, t) ==
    /\ s.price * 100 >= Max2(s.accumulation_high, s.price) * (100 + breakout_threshold_pct)
    /\ RatioAtLeast(calculate_volume_ratio(s, saturating_sub(t, BreakoutWindowSecs)),
                    volume_spike_ratio, 1)
    /\ calculate_cvd_slope(s, saturating_sub(t, BreakoutWindowSecs)) > 0

\* the three breakdown conditions, with the captured low extended by the current price
BreakdownConditions(s, t) ==
    /\ s.price * 100 <= Min2(s.distribution_low, s.price) * (100 - breakout_threshold_pct)
    /\ RatioAtLeast(calculate_volume_ratio(s, saturating_sub(t, BreakoutWindowSecs)),
                    volume_spike_ratio, 1)
    /\ calculate_cvd_slope(s, saturating_sub(t, BreakoutWindowSecs)) < 0

\* what a Detector call on a snapshot found in Accumulation or Distribution
\* does according to the branch of that state
RangeBranchTaken(trade) ==
    LET k == trade.symbol
        s == update_cvd(symbols[k], trade, now)
        after == symbols'[k]
    IN /\ symbols[k].state = "Accumulation" =>
            /\ after.accumulation_high = Max2(s.accumulation_high, s.price)
            /\ after.accumulation_low = Min2(s.accumulation_low, s.price)
            /\ (HasAlert(alerts', "LongSetupConfirmed") /\ after.state = "BreakoutLong")
                   <=> BreakoutConditions(s, now)
            /\ after.state \in {"Accumulation", "BreakoutLong"}
            /\ HasAlert(alerts', "LongSetupConfirmed") <=> after.state = "BreakoutLong"
       /\ symbols[k].state = "Distribution" =>
            /\ after.distribution_high = Max2(s.distribution_high, s.price)
            /\ after.distribution_low = Min2(s.distribution_low, s.price)
            /\ (HasAlert(alerts', "ShortSetupConfirmed") /\ after.state = "BreakdownShort")
                   <=> BreakdownConditions(s, now)
            /\ after.state \in {"Distribution", "BreakdownShort"}
            /\ HasAlert(alerts', "ShortSetupConfirmed") <=> after.state = "BreakdownShort"

\* C21: a Detector call on a snapshot in state Accumulation extends the
\* captured high and low with the current price, and emits LongSetupConfirmed
\* and moves to BreakoutLong exactly when the price is at least the extended
\* high times (1 + breakout_threshold_pct/100), the 30-second volume ratio is
\* at least volume_spike_ratio and the 30-second CVD slope is positive; the
\* same for Distribution, ShortSetupConfirmed and BreakdownShort with the
\* price at most the extended low times (1 - breakout_threshold_pct/100) and a
\* negative CVD slope.
C21_BreakoutExactlyOnConditions ==
    [][\A trade \in feed.trades :
          (TradeCall(trade) /\ ReachesDetector(trade)) => RangeBranchTaken(trade)]_vars

\* C21 as it holds: the same, for the Detector calls that emit neither
\* PumpDetected nor DumpDetected (a momentum alert moves the snapshot out of
\* Accumulation or Distribution before the branch is chosen).
C21_BreakoutUnlessMomentum ==
    [][\A trade \in feed.trades :
          (TradeCall(trade) /\ ReachesDetector(trade) /\ CountOf(alerts', MomentumAlerts) = 0)
              => RangeBranchTaken(trade)]_vars

\* a call has just moved a snapshot from Accumulation to BreakoutLong
C21_Witness ==
    /\ HasAlert(alerts, "LongSetupConfirmed")
    /\ CountOf(alerts, MomentumAlerts) = 0
    /\ \E k \in DOMAIN symbols :
          /\ symbols[k].state = "BreakoutLong"
          /\ symbols[k].accumulation_high = symbols[k].price


\* C22: with a positive breakout threshold and positive prices the engine,
\* fed tickers, rescores and trades without end, at some point confirms a
\* setup: a snapshot is in BreakoutLong or BreakdownShort.
C22_BreakoutReached ==
    <>(\E k \in DOMAIN symbols : symbols[k].state \in BreakoutStates)

\* with a positive breakout threshold no snapshot is ever in BreakoutLong or
\* BreakdownShort and no setup confirmation is ever returned
BreakoutNeverReached ==
    /\ \A k \in DOMAIN symbols : symbols[k].state \notin BreakoutStates
    /\ ~HasAlert(alerts, "LongSetupConfirmed")
    /\ ~HasAlert(alerts, "ShortSetupConfirmed")

\* a snapshot in Accumulation at the top of its captured range, with the
\* volume and CVD conditions of a breakout met
AccumulationAtTop ==
    \E k \in DOMAIN symbols :
        /\ symbols[k].state = "Accumulation"
        /\ symbols[k].price = symbols[k].accumulation_high
        /\ symbols[k].price > symbols[k].accumulation_low
        /\ RatioAtLeast(calculate_volume_ratio(symbols[k], saturating_sub(now, BreakoutWindowSecs)),
                        volume_spike_ratio, 1)
        /\ calculate_cvd_slope(symbols[k], saturating_sub(now, BreakoutWindowSecs)) > 0


\* the setup confirmation that put k in its present breakout state, when the
\* last Detector call returned it: its timestamp is the time k entered the state
EnteredBreakoutAt(k, t) ==
    \E i \in 1..Len(alerts) :
        /\ alerts[i].symbol = k
        /\ alerts[i].alert_type \in {"LongSetupConfirmed", "ShortSetupConfirmed"}
        /\ alerts[i].timestamp = t

\* C23: a Detector call takes a snapshot from BreakoutLong or BreakdownShort
\* to Idle only when more than 300 seconds have passed since the snapshot
\* entered that state, and that call clears the captured start time, high and
\* low of the range the breakout came from.
C23_ResetOnlyAfterTimeoutInState ==
    [][\A k \in DOMAIN symbols :
          (ProcessTrade /\ symbols[k].state \in BreakoutStates /\ symbols'[k].state = "Idle") =>
              /\ \A t \in feed.times : EnteredBreakoutAt(k, t) => now > t + StateTimeoutSecs
              /\ symbols[k].state = "BreakoutLong" =>
                     /\ symbols'[k].accumulation_start = None
                     /\ symbols'[k].accumulation_high = None
                     /\ symbols'[k].accumulation_low = None
              /\ symbols[k].state = "BreakdownShort" =>
                     /\ symbols'[k].distribution_start = None
                     /\ symbols'[k].distribution_high = None
                     /\ symbols'[k].distribution_low = None]_vars


\* the alert type announcing the entry into a state
AlertOf(state) ==
    CASE state = "PumpDetected" -> "PumpDetected"
      [] state = "DumpDetected" -> "DumpDetected"
      [] state = "Accumulation" -> "AccumulationDetected"
      [] state = "Distribution" -> "DistributionDetected"
      [] state = "BreakoutLong" -> "LongSetupConfirmed"
      [] state = "BreakdownShort" -> "ShortSetupConfirmed"
      [] OTHER -> ""

\* the changes of state one Detector call can make, from what it found to what
\* it left, by the alerts it returned.  A call makes at most two changes: one
\* to PumpDetected or DumpDetected and, from there, one to Accumulation or
\* Distribution.
DetectorChange(from, to, returned) ==
    \/ /\ to \in {"PumpDetected", "DumpDetected"}
       /\ HasAlert(returned, AlertOf(to))
    \/ /\ to \in {"Accumulation", "Distribution"}
       /\ HasAlert(returned, AlertOf(to))
       /\ \/ from \in {"Idle", "PumpDetected", "DumpDetected"}
          \/ CountOf(returned, MomentumAlerts) = 1
    \/ /\ from = "Accumulation" /\ to = "BreakoutLong"
       /\ HasAlert(returned, "LongSetupConfirmed")
    \/ /\ from = "Distribution" /\ to = "BreakdownShort"
       /\ HasAlert(returned, "ShortSetupConfirmed")
    \/ /\ from \in BreakoutStates /\ to = "Idle"
       /\ returned = <<>>

\* C24: every step that changes the MarketState of a snapshot is a trade
\* whose Detector call makes one of the listed changes (to PumpDetected or
\* DumpDetected with that alert, from Idle, PumpDetected or DumpDetected to
\* Accumulation or Distribution with that alert, from Accumulation to
\* BreakoutLong with LongSetupConfirmed, from Distribution to BreakdownShort
\* with ShortSetupConfirmed, from a breakout state to Idle), or a rescore that
\* leaves the snapshot Idle below Tier 1; a ticker batch changes no state.
C24_OnlyListedTransitions ==
    [][\A k \in DOMAIN symbols \cap DOMAIN symbols' :
          symbols[k].state # symbols'[k].state =>
              /\ ~ProcessTicker
              /\ \/ ProcessTrade
                    /\ DetectorChange(symbols[k].state, symbols'[k].state, alerts')
                 \/ RescoreSymbols
                    /\ symbols'[k].state = "Idle"
                    /\ symbols'[k].tier # "Tier1"]_vars

\* a snapshot has gone from Distribution to BreakdownShort, and one from a
\* range state to Idle is possible next
C24_Witness ==
    /\ HasAlert(alerts, "ShortSetupConfirmed")
    /\ \E k \in DOMAIN symbols :
          /\ symbols[k].state = "BreakdownShort"
          /\ symbols[k].tier = "Tier1"
          /\ symbols[k].distribution_start = 0
          /\ now > StateTimeoutSecs


----------------------------------------------------------------------------
(* Properties of the Tier 1 selection *)

\* C25: right after a rescore a snapshot has tier Tier1 if and only if its
\* symbol is in the list the rescore returned for the subscription manager.
C25_Tier1IffPublished ==
    [][RescoreSymbols =>
        \A k \in DOMAIN symbols' :
            symbols'[k].tier = "Tier1" <=> k \in Range(tier1_list')]_vars


\* a > b between f64 scores: false when either is NaN
ScoreAbove(a, b) == a # NaN /\ b # NaN /\ a > b

\* C26: the list a rescore returns holds at most max_tier1_symbols symbols,
\* no symbol twice, each with a score of at least tier1_threshold; no snapshot
\* outside the list has a strictly higher score than one in it; and every
\* symbol in the list has tier Tier1 after the rescore.
C26_ListIsTopScored ==
    [][RescoreSymbols =>
        LET l == tier1_list'
        IN /\ Len(l) <= max_tier1_symbols
           /\ \A i, j \in 1..Len(l) : i # j => l[i] # l[j]
           /\ \A i \in 1..Len(l) :
                 /\ l[i] \in DOMAIN symbols'
                 /\ AtLeast(symbols'[l[i]].score, tier1_threshold)
                 /\ symbols'[l[i]].tier = "Tier1"
                 /\ \A k \in DOMAIN symbols' \ Range(l) :
                       ~ScoreAbove(symbols'[k].score, symbols'[l[i]].score)]_vars

----------------------------------------------------------------------------
(* Order of delivery *)

\* C27: when the dispatcher delivers an alert while other alerts are pending
\* in its channel, none of the pending alerts has a higher priority than the
\* one delivered.
C27_DeliveredHighestPriorityFirst ==
    [][(DispatchAlert /\ Len(delivered') > Len(delivered)) =>
        \A i \in 2..Len(alert_rx) :
            get_priority(alert_rx[i].alert_type)
                <= get_priority(Head(alert_rx).alert_type)]_vars

----------------------------------------------------------------------------
(* Properties of the stream connection loop *)

\* C28: the first failure waits reconnect_base_delay_secs; after each failure
\* the delay becomes the smaller of its double and reconnect_max_delay_secs;
\* and a failure that follows a successful connection (a read error) waits
\* the base delay again.
C28_BackoffResetsOnSuccess ==
    [][/\ WakeUp => reconnect_delay' = Min2(2 * reconnect_delay, reconnect_max_delay_secs)
       /\ (stream_pc' = "sleeping" /\ stream_pc # "sleeping"
              /\ sleep_secs = 0) => sleep_secs' = reconnect_base_delay_secs
       /\ (ReadFrame /\ stream_pc' = "sleeping") =>
              sleep_secs' = reconnect_base_delay_secs]_vars

\* the first two conjuncts of C28, which the loop does keep
BackoffDoublesUpToMax ==
    [][/\ WakeUp => reconnect_delay' = Min2(2 * reconnect_delay, reconnect_max_delay_secs)
       /\ (stream_pc' = "sleeping" /\ stream_pc # "sleeping"
              /\ sleep_secs = 0) => sleep_secs' = reconnect_base_delay_secs]_vars

ForwardedFrame(frame) ==
    frame.kind = "text" /\ parse_message(stream_kind, frame.text).ok

\* C29: a connection or read error never ends the loop, and the loop that
\* sleeps after an error always connects again; the loop ends only on a
\* Close frame, on the end of the stream, or on a message it could not send
\* because the receiver is gone; a text frame that does not parse leaves the
\* loop reading and the channel as it was.
C29_ErrorsNeverEndTheLoop ==
    /\ [][/\ last_frame'.kind \in {"error", "connect_error"} /\ last_frame' # last_frame
               => stream_pc' = "sleeping"
          /\ (stream_pc' = "ended" /\ stream_pc # "ended") =>
                \/ last_frame'.kind \in {"close", "eof"}
                \/ ForwardedFrame(last_frame') /\ rx_closed
          /\ (ReadFrame /\ last_frame'.kind = "text" /\ ~ForwardedFrame(last_frame')) =>
                stream_pc' = "reading" /\ stream_tx' = stream_tx]_vars
    /\ (stream_pc = "sleeping") ~> (stream_pc = "connecting")

\* the loop connects again after as many errors as it takes to reach the
\* maximum delay
C29_Witness ==
    /\ stream_pc = "connecting"
    /\ reconnect_delay = reconnect_max_delay_secs
    /\ last_frame.kind = "error"

----------------------------------------------------------------------------
(* Liveness of the recorded trade tasks *)

\* C30: every handle recorded in active_streams belongs to a task that is
\* still running.
C30_ActiveSymbolsHaveRunningTask ==
    \A symbol \in DOMAIN active_streams :
        \E task \in tasks : task.id = active_streams[symbol] /\ task.symbol = symbol

----------------------------------------------------------------------------
(* What an unsubscribe leaves running *)

PingsOf(symbol) == {ping \in pings : ping.symbol = symbol}

\* C31: once unsubscribe(symbol) has returned, and until the next call on
\* the manager, neither a trade-ingestion task nor a keepalive ping task of
\* that symbol is running.
C31_NothingRunsAfterUnsubscribe ==
    last_call.op = "unsubscribe" =>
        TasksOf(last_call.symbol) = {} /\ PingsOf(last_call.symbol) = {}

----------------------------------------------------------------------------
(* Properties of trade processing *)

\* a trade both of whose numeric fields parse to a non-zero number
UsableTrade(trade) ==
    /\ trade.price.ok /\ trade.price.val # 0
    /\ trade.quantity.ok /\ trade.quantity.val # 0

\* price x quantity, negative for a sell (the buyer is the maker)
SignedNotional(trade) ==
    IF trade.is_buyer_maker
    THEN -(trade.price.val * trade.quantity.val)
    ELSE trade.price.val * trade.quantity.val

\* process_trade was just handed a trade for a snapshot that is Tier1
TradeOnTier1 ==
    /\ HandleTrade
    /\ last_trade'.symbol \in DOMAIN symbols
    /\ symbols[last_trade'.symbol].tier = "Tier1"

\* C32: a snapshot starts with a CVD of zero; a trade with parseable non-zero
\* price and quantity processed for a Tier1 symbol changes the CVD by
\* price x quantity, added for a buy and subtracted for a sell; and every
\* other step leaves the CVD as it was or clears it to zero.
C32_CvdIsSignedSum ==
    [][/\ \A k \in DOMAIN symbols' \ DOMAIN symbols : symbols'[k].cvd = 0
       /\ \A k \in DOMAIN symbols' \cap DOMAIN symbols :
             IF TradeOnTier1 /\ last_trade'.symbol = k /\ UsableTrade(last_trade')
             THEN symbols'[k].cvd = symbols[k].cvd + SignedNotional(last_trade')
             ELSE symbols'[k].cvd \in {symbols[k].cvd, 0}]_vars

\* a buy and then a sell of the same notional leave a CVD of zero
C32_Witness ==
    /\ "AUSDT" \in DOMAIN symbols
    /\ UsableTrade(last_trade) /\ last_trade.is_buyer_maker
    /\ symbols["AUSDT"].cvd = 0
    /\ Len(symbols["AUSDT"].cvd_history) = 2
    /\ symbols["AUSDT"].cvd_history[1][2] = 6

NewestIsCvd(s) ==
    s.cvd_history # <<>> /\ s.cvd_history[Len(s.cvd_history)][2] = s.cvd

\* C33: after every process_trade on a Tier1 symbol the CVD history of the
\* snapshot is non-empty and its newest entry holds the current CVD.
C33_HistoryEndsWithCvd ==
    [][TradeOnTier1 => NewestIsCvd(symbols'[last_trade'.symbol])]_vars

\* C33, amended: after process_trade on a Tier1 symbol with a trade whose
\* price and quantity parse to non-zero numbers, the CVD history is non-empty
\* and its newest entry is the current time with the current CVD; after any
\* other trade the history is what it was.
C33_HistoryEndsWithCvdOfUsableTrade ==
    [][TradeOnTier1 =>
        LET old == symbols[last_trade'.symbol]
            new == symbols'[last_trade'.symbol]
        IN IF UsableTrade(last_trade')
           THEN /\ NewestIsCvd(new)
                /\ new.cvd_history[Len(new.cvd_history)] = <<now, new.cvd>>
           ELSE new.cvd_history = old.cvd_history]_vars

\* a usable trade was appended to a history that was full
C33_Witness ==
    /\ UsableTrade(last_trade)
    /\ last_trade.symbol \in DOMAIN symbols
    /\ symbols[last_trade.symbol].tier = "Tier1"
    /\ Len(symbols[last_trade.symbol].cvd_history) = cvd_history_size
    /\ symbols[last_trade.symbol].cvd = 12

\* C34: process_trade for a symbol that is unknown or not Tier1 returns no
\* alert and leaves the symbol table as it was, and every alert a
\* process_trade returned names a symbol whose tier is Tier1.
C34_OnlyTier1TradesAct ==
    [][HandleTrade =>
        /\ (last_trade'.symbol \notin DOMAIN symbols
               \/ symbols[last_trade'.symbol].tier # "Tier1")
              => (alerts' = <<>> /\ symbols' = symbols)
        /\ \A i \in 1..Len(alerts') :
              /\ alerts'[i].symbol = last_trade'.symbol
              /\ alerts'[i].symbol \in DOMAIN symbols'
              /\ symbols'[alerts'[i].symbol].tier = "Tier1"]_vars

\* a usable trade for a symbol the engine does not track was handled while
\* another symbol was Tier1
C34_Witness ==
    /\ last_trade.symbol = "ABTC" /\ UsableTrade(last_trade)
    /\ "AUSDT" \in DOMAIN symbols /\ symbols["AUSDT"].tier = "Tier1"
    /\ alerts = <<>>

\* a process_trade has returned alerts
AlertsReturned == alerts # <<>>

----------------------------------------------------------------------------
(* Properties of the hard filters *)

\* the ticker fails a hard filter
FailsHardFilter(ticker) ==
    \/ ~ends_with_USDT(ticker.symbol)
    \/ ~ticker.quote_volume.ok
    \/ ~ticker.current_price.ok
    \/ ticker.quote_volume.val < min_quote_volume
    \/ ticker.current_price.val < min_price
    \/ ticker.number_of_trades < min_trades_24h

\* C35: the iteration of process_ticker over a ticker that fails a hard
\* filter leaves the symbol table as it was; the iteration over a ticker that
\* passes them leaves its symbol tracked with that ticker's price and the
\* current time as last update; and either way the loop goes on with the
\* rest of the batch.
C35_RejectedTickerChangesNothing ==
    [][ApplyTicker =>
        LET ticker == Head(task_batch)
        IN /\ task_batch' = Tail(task_batch)
           /\ IF FailsHardFilter(ticker)
              THEN symbols' = symbols
              ELSE /\ ticker.symbol \in DOMAIN symbols'
                   /\ symbols'[ticker.symbol].price = ticker.current_price.val
                   /\ symbols'[ticker.symbol].last_update_time = now
                   /\ \A k \in DOMAIN symbols \ {ticker.symbol} :
                         k \in DOMAIN symbols' /\ symbols'[k] = symbols[k]]_vars

\* a batch of a rejected ticker of a tracked symbol and an acceptable ticker
\* of another symbol has been gone through
C35_Witness ==
    /\ engine_pc = "process_ticker"
    /\ task_batch = <<>>
    /\ Len(task_begin.batch) = 2
    /\ FailsHardFilter(task_begin.batch[1])
    /\ task_begin.batch[1].symbol = "AUSDT"
    /\ task_begin.batch[2].symbol = "BUSDT"
    /\ "AUSDT" \in DOMAIN symbols /\ symbols["AUSDT"].last_update_time < now
    /\ "BUSDT" \in DOMAIN symbols /\ symbols["BUSDT"].last_update_time = now

----------------------------------------------------------------------------
(* Properties of the Tier 1 updates *)

\* C36: a rescore is followed by the send of the list it returned before the
\* engine does anything else; the channel changes only by that send, which
\* appends the list, or by a receive, which takes the oldest list; so the
\* newest list in the channel is the one of the latest rescore, whether or
\* not it differs from the list before it.
C36_OneListPerRescoreInOrder ==
    /\ [][/\ RescoreTick => (engine_pc' = "send_tier1" /\ tier1_rx' = tier1_rx)
          /\ engine_pc = "send_tier1" =>
                /\ tier1_list' = tier1_list /\ symbols' = symbols
                /\ engine_pc' # engine_pc =>
                      (engine_pc' = "select" /\ tier1_rx' = Append(tier1_rx, tier1_list))
          /\ tier1_rx' # tier1_rx =>
                \/ engine_pc = "send_tier1" /\ tier1_rx' = Append(tier1_rx, tier1_list)
                \/ tier1_rx # <<>> /\ tier1_rx' = Tail(tier1_rx)]_vars
    /\ [](engine_pc # "send_tier1" /\ tier1_rx # <<>>
            => tier1_rx[Len(tier1_rx)] = tier1_list)

\* two rescores in a row sent the same, empty list, and both are in the channel
C36_Witness ==
    /\ engine_pc = "select"
    /\ tier1_rx = << <<>>, <<>> >>

\* a rescore sent the empty list and the next one a list that differs; they
\* are in the channel in that order
ListsInRescoreOrder ==
    /\ engine_pc = "select"
    /\ tier1_rx = << <<>>, <<"AUSDT">> >>
    /\ tier1_list = <<"AUSDT">>

----------------------------------------------------------------------------
(* Properties of the pump scanner *)

\* the tracker holds a pump that analyze would report for a Normal tracker
QualifyingPump(t) ==
    /\ should_check_pump(t)
    /\ Len(t.price_history) >= MinPricePoints
    /\ \E w \in min_window_mins..max_window_mins :
          LET pc == price_change_in_window(t, w * SecsPerMin)
          IN pc.found /\ is_pump_trigger(pc, t)

\* C37: when a price update finds a qualifying pump in a tracker that has
\* alerted before and whose cooldown has elapsed, analyze yields a candidate.
C37_AlertsAgainAfterCooldown ==
    [][(/\ ProcessPriceUpdate
        /\ pump_clock.last_alert_time # None
        /\ ~is_in_cooldown(pump_clock, now', alert_cooldown_secs)
        /\ QualifyingPump(tracker')) => candidate'.found]_vars

\* a tracker that is Alerted stays Alerted
AlertedIsPermanent ==
    [][tracker.pump_state.kind = "Alerted" => tracker'.pump_state.kind = "Alerted"]_vars

\* a qualifying pump after the cooldown found the tracker Alerted
AlertedAfterCooldown ==
    /\ tracker.pump_state.kind = "Alerted"
    /\ ~is_in_cooldown(pump_clock, now, alert_cooldown_secs)
    /\ QualifyingPump(tracker)

----------------------------------------------------------------------------
(* Properties of the captured ranges *)

RangeOrdered(s) ==
    /\ (s.accumulation_high # None /\ s.accumulation_low # None)
          => s.accumulation_low <= s.accumulation_high
    /\ (s.distribution_high # None /\ s.distribution_low # None)
          => s.distribution_low <= s.distribution_high

\* the range captured for the state the snapshot is in before and after the step
\* did not shrink
RangeOnlyWidens(old, new) ==
    /\ (old.state = "Accumulation" /\ new.state = "Accumulation") =>
          /\ new.accumulation_high >= old.accumulation_high
          /\ new.accumulation_low <= old.accumulation_low
    /\ (old.state = "Distribution" /\ new.state = "Distribution") =>
          /\ new.distribution_high >= old.distribution_high
          /\ new.distribution_low <= old.distribution_low

MomentumAlertFor(k, returned) ==
    \E i \in 1..Len(returned) :
        returned[i].symbol = k /\ returned[i].alert_type \in MomentumAlerts

\* the range of the state the snapshot is in is the current price alone
RangeCapturedAnew(s) ==
    /\ s.state = "Accumulation" =>
          (s.accumulation_high = s.price /\ s.accumulation_low = s.price)
    /\ s.state = "Distribution" =>
          (s.distribution_high = s.price /\ s.distribution_low = s.price)

----------------------------------------------------------------------------
(* Properties of the scanner API state *)

AllCompleted == \A c \in DOMAIN requests : requests[c].pc = "idle"

\* C39: when no operation is in progress, the map the state file holds is
\* the in-memory pair map.
C39_FileEqualsMemory == AllCompleted => load(storage) = pairs

\* with a single client the file is the map whenever no operation is in progress
SingleClientFileEqualsMemory ==
    (Cardinality(DOMAIN requests) = 1 /\ AllCompleted) => load(storage) = pairs

====
